---- MODULE Spec2Model ----
(***************************************************************************)
(* PadSwitch: App State (state.rs), the UI / tray / watcher entry points   *)
(* that drive it (commands.rs, tray.rs, process_watcher.rs) and the        *)
(* input-loop worker thread (input_loop.rs, Windows pipelines).            *)
(*                                                                         *)
(* Option<T> is modelled as a sequence: None == <<>>, Some(v) == <<v>>.    *)
(* A device d in 1..NumDevices has id d and instance path 10 + d.          *)
(***************************************************************************)
EXTENDS Integers, Sequences, FiniteSets, TLC

\* ------------------------------------------------------------------ bounds
\* Number of physical controllers the OS can enumerate.
NumDevices == 2

None == <<>>
Some(v) == <<v>>

\* ------------------------------------------------------------ data model
\* config.rs RoutingMode
RoutingMode == {"Minimal", "Force"}

\* RoutingMode::default() (#[default] Minimal)
DefaultRoutingMode == "Minimal"

InstancePath(d) == 10 + d

\* The device table an enumeration returns when the first k controllers are
\* connected: slots are handed out in enumeration order.
EnumerateDevices(k) ==
    [d \in 1..k |-> [id |-> d, instance_path |-> InstancePath(d),
                     xinput_slot |-> Some(d - 1)]]

SlotAssignment(d, s, e) == [device_id |-> d, slot |-> s, enabled |-> e]

\* PhysicalDevice::from_xinput_slot: the id "xinput-n" and the instance path
\* "XINPUT\SLOTn" of the fallback entry for slot n, which names no OS device.
SyntheticId(slot) == 100 + slot
SyntheticPath(slot) == 100 + slot
FromXInputSlot(slot) ==
    [id |-> SyntheticId(slot), instance_path |-> SyntheticPath(slot),
     xinput_slot |-> Some(slot)]

\* enumerate_devices when SetupAPI finds `real` xinput controllers and the
\* slots 0..connected-1 answer: the real devices take the slots in order
\* while there are any, and every slot left over gets a fallback entry.
EnumerateJoin(real, connected) ==
    [d \in 1..real |-> [id |-> d, instance_path |-> InstancePath(d),
                        xinput_slot |-> IF d <= connected THEN Some(d - 1) ELSE None]]
    \o [k \in 1..(IF connected > real THEN connected - real ELSE 0) |->
          FromXInputSlot(real + k - 1)]

\* An assignment list made in the UI from a table with a fallback entry: the
\* first controller and the unmatched controller in slot 1 swap places.
FallbackAssignments ==
    <<SlotAssignment(1, 1, TRUE), SlotAssignment(SyntheticId(1), 0, TRUE)>>

\* Profile P1 (Minimal) reverses the connection order: with two devices it is
\* {A -> slot 1, B -> slot 0}.  Profile P2 (Force) swaps the first two slots
\* and carries a disabled entry in front.
ReverseAssignments == [d \in 1..NumDevices |-> SlotAssignment(d, NumDevices - d, TRUE)]
SwappedAssignments ==
    <<SlotAssignment(1, 0, FALSE)>> \o
    [d \in 1..NumDevices |->
        SlotAssignment(d, IF d = 1 THEN 1 ELSE IF d = 2 THEN 0 ELSE d - 1, TRUE)]

InitProfiles ==
    << [id |-> "P1", assignments |-> ReverseAssignments, routing_mode |-> "Minimal"],
       [id |-> "P2", assignments |-> SwappedAssignments, routing_mode |-> "Force"] >>

ProfileIds == {"P1", "P2"}
\* The id Uuid::new_v4 gives the one profile saved during a session.
NewProfileId == "P3"
\* Ids a caller may ask for: the stored ones, the saved one and one that does
\* not exist.
RequestedIds == ProfileIds \cup {NewProfileId, "PX"}

\* Assignment lists a caller may pass: the first two devices both sent to
\* slot 0, and the same with the second entry disabled.
ClashingAssignments == <<SlotAssignment(1, 0, TRUE), SlotAssignment(2, 0, TRUE)>>
MaskedAssignments == <<SlotAssignment(1, 0, TRUE), SlotAssignment(2, 0, FALSE)>>
AssignmentInputs == {ClashingAssignments, MaskedAssignments}

\* Slots a caller may confirm for a device, and the device ids it may name
\* (one of them unknown).
ConfirmedSlots == 0..NumDevices
ConfirmedIds == 1..(NumDevices + 1)

\* Executable and process names are byte strings (sequences of ASCII codes):
\* "G1", "g1", "'1" ("'" is 'G' - 32, not a letter).
NameG1Upper == <<71, 49>>
NameG1Lower == <<103, 49>>
NameQuote1 == <<39, 49>>

\* The names the OS process table can hold.
ProcessNames == {NameG1Lower, NameQuote1}

GameRule(id, exe_name, profile_id, enabled) ==
    [id |-> id, exe_name |-> exe_name, profile_id |-> profile_id, enabled |-> enabled]

\* The stored rules: a disabled rule for G1 in front of an enabled one.
InitGameRules ==
    << GameRule("R0", NameG1Upper, "P2", FALSE),
       GameRule("R1", NameG1Upper, "P1", TRUE) >>

RuleIds == {"R0", "R1"}

VARIABLES
    \* state.rs Inner
    devices, assignments, forwarding_active,
    \* config.rs AppConfig
    profiles, active_profile_id,
    \* input_loop.rs InputLoop
    running, thread_handle,
    \* platform::is_elevated(): fixed for the life of the process
    elevated,
    \* the input-loop worker thread
    wpc, wmode, wassign, sorted, wi, targets, client, wexit, wlog,
    \* the command blocked in handle.join() while holding the inner lock
    holder,
    \* the forwarding or profile-activation call that returned last, what it
    \* returned and what it emitted
    last,
    \* config.rs AppConfig.game_rules
    game_rules,
    \* the OS process table: the names list_running_processes returns
    processes,
    \* process_watcher.rs ProcessWatcher
    watcher_running, watcher_handle,
    \* the watcher thread: its position and the locals of watcher_loop
    tpc, t_rules, t_current, t_kind, t_rule, t_ok,
    active_rule_id, pre_game_profile_id,
    \* what an observer records of the activation call the watcher is in
    call,
    \* reset_all: its position, and the platform calls it made, in order
    rpc, plog,
    \* lib.rs: the lockfile (the pid it holds), the position of the setup
    \* closure, and the file-system and platform calls it made, in order
    lockfile, spc, slog,
    \* commands::detect_xinput_slot: its position, what each slot answered at
    \* the baseline, what the polls answered so far, and the value returned
    det_pc, base_read, polled, detected,
    \* what an observer notes of the start_forwarding call that returned last:
    \* what check_drivers reported and how the call ended
    start_obs,
    \* hidhide.rs HidHide: the threads holding an open control handle, the
    \* hiding operations each thread still has to make, and where each thread
    \* is inside the operation at the head of its list
    hh_owner, hh_todo, hh_at,
    \* the driver's blacklist, and the add / remove calls made on it with the
    \* IOCTLs each one issued
    blacklist, bl_log,
    \* a list handed to encode_multi_string, its encoding, and what
    \* decode_multi_string made of the encoding
    ms_pc, ms_list, ms_bytes, ms_decoded,
    \* device.rs PhysicalDevice.hidden: the ids of the devices of the table
    \* whose flag is set; and what an observer notes of the toggle_device call
    \* that returned last
    dev_hidden, tog

inner_vars == <<devices, assignments, forwarding_active, profiles, active_profile_id>>
loop_vars == <<running, thread_handle>>
worker_vars == <<wpc, wmode, wassign, sorted, wi, targets, client, wexit, wlog>>
watcher_vars == <<watcher_running, watcher_handle, tpc, t_rules, t_current,
                  t_kind, t_rule, t_ok, active_rule_id, pre_game_profile_id, call>>
boot_vars == <<lockfile, spc, slog>>
det_vars == <<det_pc, base_read, polled, detected>>
hh_vars == <<hh_owner, hh_todo, hh_at>>
bl_vars == <<blacklist, bl_log>>
ms_vars == <<ms_pc, ms_list, ms_bytes, ms_decoded>>
drv_vars == <<hh_vars, bl_vars, ms_vars>>
tog_vars == <<dev_hidden, tog>>
late_vars == <<tog_vars>>
helper_vars == <<det_vars, start_obs, drv_vars, late_vars>>
aux_vars == <<boot_vars, helper_vars>>
ext_vars == <<game_rules, processes, watcher_vars, rpc, plog, aux_vars>>
vars == <<inner_vars, loop_vars, elevated, worker_vars, holder, last, ext_vars>>

\* ---------------------------------------------------------------- helpers
\* Iterator::find / position on the id field: index of the first element
\* whose id is `id`, 0 when there is none.
IndexOfId(s, id) ==
    IF \E i \in 1..Len(s) : s[i].id = id
    THEN CHOOSE i \in 1..Len(s) :
             s[i].id = id /\ \A j \in 1..(i - 1) : s[j].id # id
    ELSE 0

\* Inner::active_profile
ActiveProfile(profs, active) ==
    IF active = None THEN None
    ELSE LET i == IndexOfId(profs, active[1])
         IN IF i = 0 THEN None ELSE Some(profs[i])

\* Inner::active_routing_mode
ActiveRoutingMode(profs, active) ==
    LET p == ActiveProfile(profs, active)
    IN IF p = None THEN DefaultRoutingMode ELSE p[1].routing_mode

\* Faulty variant of ResolveAssignments: disabled entries are resolved too.
RECURSIVE ResolveAssignmentsWithDisabled(_, _)
ResolveAssignmentsWithDisabled(assigns, devs) ==
    IF assigns = <<>> THEN <<>>
    ELSE LET a == Head(assigns)
             i == IndexOfId(devs, a.device_id)
             rest == ResolveAssignmentsWithDisabled(Tail(assigns), devs)
         IN IF i # 0
            THEN << [instance_path |-> devs[i].instance_path,
                     xinput_slot |-> devs[i].xinput_slot,
                     target_slot |-> a.slot] >> \o rest
            ELSE rest

\* Inner::resolve_assignments
RECURSIVE ResolveAssignments(_, _)
ResolveAssignments(assigns, devs) ==
    IF assigns = <<>> THEN <<>>
    ELSE LET a == Head(assigns)
             i == IndexOfId(devs, a.device_id)
             rest == ResolveAssignments(Tail(assigns), devs)
         IN IF a.enabled /\ i # 0
            THEN << [instance_path |-> devs[i].instance_path,
                     xinput_slot |-> devs[i].xinput_slot,
                     target_slot |-> a.slot] >> \o rest
            ELSE rest

\* Faulty variant of PreflightCheck: only the hiding driver is looked at.
PreflightCheckHidingOnly(mode, elev, hidhide_installed, vigembus_installed) ==
    IF mode = "Minimal"
    THEN IF elev THEN "ok" ELSE "Platform"
    ELSE IF ~hidhide_installed THEN "DriverNotInstalled" ELSE "ok"

\* Inner::preflight_check: "ok" or the error kind
PreflightCheck(mode, elev, hidhide_installed, vigembus_installed) ==
    IF mode = "Minimal"
    THEN IF elev THEN "ok" ELSE "Platform"
    ELSE IF ~hidhide_installed \/ ~vigembus_installed
         THEN "DriverNotInstalled" ELSE "ok"

\* u8::to_ascii_lowercase: 'A'..'Z' get bit 0x20 set, every other byte stays.
ToAsciiLowercase(b) == IF b >= 65 /\ b <= 90 THEN b + 32 ELSE b

\* str::eq_ignore_ascii_case: same length and bytes equal after lowercasing.
EqIgnoreAsciiCase(a, b) ==
    /\ Len(a) = Len(b)
    /\ \A i \in 1..Len(a) : ToAsciiLowercase(a[i]) = ToAsciiLowercase(b[i])

\* Faulty variant of MatchedRule: the enabled filter is left out.
MatchedRuleUnfiltered(rules, procs) ==
    LET hit(r) == \E p \in procs : EqIgnoreAsciiCase(p, r.exe_name)
    IN IF \E i \in 1..Len(rules) : hit(rules[i])
       THEN Some(rules[CHOOSE i \in 1..Len(rules) :
                          hit(rules[i]) /\ \A j \in 1..(i - 1) : ~hit(rules[j])])
       ELSE None

\* watcher_loop: rules.iter().filter(|r| r.enabled).find(|r| processes.any(..)),
\* the first enabled rule whose exe_name matches a running process.
MatchedRule(rules, procs) ==
    LET hit(r) == r.enabled /\ \E p \in procs : EqIgnoreAsciiCase(p, r.exe_name)
    IN IF \E i \in 1..Len(rules) : hit(rules[i])
       THEN Some(rules[CHOOSE i \in 1..Len(rules) :
                          hit(rules[i]) /\ \A j \in 1..(i - 1) : ~hit(rules[j])])
       ELSE None

\* What an observer notes of one activation by the watcher: the profile asked
\* for, whether it was found, and App State's active profile id and
\* assignments right before and right after the write.
Activated(pid, found, before, after_id, after_assign) ==
    [pid |-> pid, found |-> found, before |-> before, after_id |-> after_id,
     after_assign |-> after_assign]

NoActivation == Activated(None, FALSE, None, None, <<>>)

\* Where a reset is: which entry point runs it (reset_all, reset_from_tray)
\* and the step it is at, whether forwarding was active when step 2 began and
\* whether the worker was joined.
Resetting(op, at, was_active, joined) ==
    [op |-> op, at |-> at, was_active |-> was_active, joined |-> joined]

NoReset == Resetting("none", "none", FALSE, FALSE)

\* The pid of this process and the pid a stale lockfile holds.
Pid == 2
OldPid == 1

\* XInput slots (XUSER_MAX_COUNT), the slots a controller is connected to
\* during a probe, and the button words a connected slot may report (bits 0
\* and 1 of the 16).
XInputSlots == 0..3
ConnectedSlots == {0, 1}
ButtonWords == {0, 1, 3}
\* What read_gamepad_state answers: Err (None) or Ok with the button word.
Readings(slot) ==
    IF slot \in ConnectedSlots THEN {None} \cup {Some(b) : b \in ButtonWords}
    ELSE {None}
\* Poll passes that fit before the 5 s deadline, at most.
MaxPolls == 2

\* No probe is running.
ProbeIdle ==
    /\ det_pc = "idle"
    /\ base_read = [s \in XInputSlots |-> None]
    /\ polled = <<>>
    /\ detected = None

\* What an observer notes of one start_forwarding call: the driver status it
\* was given and its outcome.
StartObserved(hh, vg, outcome) ==
    [hidhide_installed |-> hh, vigembus_installed |-> vg, outcome |-> outcome]

NoStart == StartObserved(FALSE, FALSE, "none")

\* The threads that talk to the hiding driver: the input-loop worker and the
\* thread the UI commands run on.
HidingThreads == {"worker", "ui"}

\* No thread is inside a hiding operation, the driver's blacklist is empty
\* and no list has been encoded.
DriverIdle ==
    /\ hh_owner = {}
    /\ hh_todo = [t \in HidingThreads |-> <<>>]
    /\ hh_at = [t \in HidingThreads |-> "closed"]
    /\ blacklist = <<>>
    /\ bl_log = <<>>
    /\ ms_pc = "idle"
    /\ ms_list = <<>>
    /\ ms_bytes = <<>>
    /\ ms_decoded = <<>>

\* What an observer notes of one toggle_device call: the arguments, the
\* platform call it made (None when it made none), what it returned, and a
\* bit that changes with every call.
Toggled(id, hidden, made, res, turn) ==
    [id |-> id, hidden |-> hidden, call |-> made, res |-> res, turn |-> turn]

NoToggle == Toggled(0, FALSE, None, "none", FALSE)

\* No device of the table is flagged hidden and no toggle has been observed.
LateIdle ==
    /\ dev_hidden = {}
    /\ tog = NoToggle

\* No helper command is running and no start has been observed.
HelpersIdle == ProbeIdle /\ start_obs = NoStart /\ DriverIdle /\ LateIdle

\* The setup closure has returned: this session's lockfile is written.
SetupDone ==
    /\ lockfile = Some(Pid)
    /\ spc = "done"
    /\ slog = <<>>

\* ProcessWatcher::new, and the thread's locals before watcher_loop runs.
WatcherInit ==
    /\ watcher_running = FALSE
    /\ watcher_handle = FALSE
    /\ tpc = "none"
    /\ t_rules = <<>>
    /\ t_current = None
    /\ t_kind = "none"
    /\ t_rule = None
    /\ t_ok = FALSE
    /\ active_rule_id = None
    /\ pre_game_profile_id = None
    /\ call = NoActivation

\* Faulty variant of SortByKey: the assignments are used in the order given.
SortSkipped(s) == s

\* sorted.sort_by_key(|a| a.target_slot): a stable sort
RECURSIVE InsertByKey(_, _)
InsertByKey(s, a) ==
    IF s = <<>> THEN <<a>>
    ELSE IF Head(s).target_slot <= a.target_slot
         THEN <<Head(s)>> \o InsertByKey(Tail(s), a)
         ELSE <<a>> \o s

RECURSIVE SortByKeyFrom(_, _)
SortByKeyFrom(done, rest) ==
    IF rest = <<>> THEN done
    ELSE SortByKeyFrom(InsertByKey(done, Head(rest)), Tail(rest))

SortByKey(s) == SortByKeyFrom(<<>>, s)

\* One call the worker made: the operation, its argument and its result.
\* res is "ignored" where the code only logs the result and carries on.
Call(op, arg, res) == [op |-> op, arg |-> arg, res |-> res]

\* Events emitted to the UI
ForwardingStatus(active, error) ==
    [name |-> "forwarding-status", active |-> active, error |-> error]
ProfileActivated(pid) == [name |-> "profile-activated", profile_id |-> pid]

Returned(op, ok, events, was_active, joined, spawned) ==
    [op |-> op, ok |-> ok, events |-> events, was_active |-> was_active,
     joined |-> joined, spawned |-> spawned]

\* ------------------------------------------------------------------- Init
\* AppState::new: empty device table and assignments, config as loaded.
Constructed ==
    /\ devices = <<>>
    /\ assignments = <<>>
    /\ forwarding_active = FALSE
    /\ profiles = InitProfiles
    /\ active_profile_id \in {None} \cup {Some(p) : p \in ProfileIds}
    /\ running = FALSE
    /\ thread_handle = FALSE
    /\ elevated \in BOOLEAN
    /\ wpc = "none"
    /\ wmode = DefaultRoutingMode
    /\ wassign = <<>>
    /\ sorted = <<>>
    /\ wi = 1
    /\ targets = 0
    /\ client = FALSE
    /\ wexit = "none"
    /\ wlog = <<>>
    /\ holder = "none"
    /\ last = Returned("init", TRUE, <<>>, FALSE, FALSE, FALSE)
    /\ game_rules = InitGameRules
    /\ processes = {}
    /\ WatcherInit
    /\ rpc = NoReset
    /\ plog = <<>>

\* The state the commands start from: constructed, setup closure returned.
Init == Constructed /\ SetupDone /\ HelpersIdle

\* ------------------------------------------------- the input-loop worker
\* The pipelines receive the running flag, the platform and the assignments,
\* no AppHandle: the worker thread emits no event.
WorkerEvents == <<>>

\* No thread: the state of the worker's locals before spawn and after join.
NoWorker ==
    /\ wpc' = "none"
    /\ wmode' = DefaultRoutingMode
    /\ wassign' = <<>>
    /\ sorted' = <<>>
    /\ wi' = 1
    /\ targets' = 0
    /\ client' = FALSE
    /\ wexit' = "none"
    /\ wlog' = <<>>

\* The closure handed to thread::Builder::spawn: dispatch on the mode, then
\* the pipeline's first statements (clone and sort the assignments).
SpawnWorker(mode, resolved) ==
    /\ wpc' = IF mode = "Minimal" THEN "m_disable" ELSE "f_whitelist"
    /\ wmode' = mode
    /\ wassign' = resolved
    /\ sorted' = SortByKey(resolved)
    /\ wi' = 1
    /\ targets' = 0
    /\ client' = FALSE
    /\ wexit' = "none"
    /\ wlog' = <<>>

WorkerStep(pc, i, log) ==
    /\ wpc' = pc
    /\ wi' = i
    /\ wlog' = log
    /\ UNCHANGED <<wmode, wassign, sorted>>

PathAt(i) == sorted[i].instance_path

\* run_minimal step 1: disable every path, errors only logged; then the
\* 200 ms settle wait.
MinimalDisable ==
    /\ wpc = "m_disable"
    /\ IF wi <= Len(sorted)
       THEN WorkerStep("m_disable", wi + 1,
                       Append(wlog, Call("disable", PathAt(wi), "ignored")))
       ELSE WorkerStep("m_enable", 1, wlog)
    /\ UNCHANGED <<inner_vars, loop_vars, elevated, ext_vars, targets, client, wexit, holder, last>>

\* run_minimal step 3: re-enable in order, leaving the loop when running clears
\* (wexit keeps "break" when the loop was left early).
MinimalEnable ==
    /\ wpc = "m_enable"
    /\ IF wi <= Len(sorted) /\ running
       THEN WorkerStep("m_enable", wi + 1,
                       Append(wlog, Call("enable", PathAt(wi), "ignored")))
       ELSE WorkerStep("m_hold", wi, wlog)
    /\ wexit' = IF wi <= Len(sorted) /\ ~running THEN "break" ELSE wexit
    /\ UNCHANGED <<inner_vars, loop_vars, elevated, ext_vars, targets, client, holder, last>>

\* Faulty variant of MinimalHold: the hold loop tests the flag the wrong way
\* round and never ends after a stop.
MinimalHoldIgnoresStop ==
    /\ wpc = "m_hold"
    /\ running
    /\ WorkerStep("m_cleanup", 1, wlog)
    /\ wexit' = IF wexit = "break" THEN "break" ELSE "stop"
    /\ UNCHANGED <<inner_vars, loop_vars, elevated, ext_vars, targets, client, holder, last>>

\* run_minimal hold state: leaves the while loop once running is false.
MinimalHold ==
    /\ wpc = "m_hold"
    /\ ~running
    /\ WorkerStep("m_cleanup", 1, wlog)
    /\ wexit' = IF wexit = "break" THEN "break" ELSE "stop"
    /\ UNCHANGED <<inner_vars, loop_vars, elevated, ext_vars, targets, client, holder, last>>

\* Faulty variant of MinimalCleanup: the thread ends after the hold state without the
\* final enable pass.
MinimalCleanupSkipped ==
    /\ wpc = "m_cleanup"
    /\ WorkerStep("done", wi, wlog)
    /\ UNCHANGED <<inner_vars, loop_vars, elevated, ext_vars, targets, client, wexit, holder, last>>

\* run_minimal cleanup: enable every path once more, then the thread ends.
MinimalCleanup ==
    /\ wpc = "m_cleanup"
    /\ IF wi <= Len(sorted)
       THEN WorkerStep("m_cleanup", wi + 1,
                       Append(wlog, Call("enable", PathAt(wi), "ignored")))
       ELSE WorkerStep("done", wi, wlog)
    /\ UNCHANGED <<inner_vars, loop_vars, elevated, ext_vars, targets, client, wexit, holder, last>>

\* Results of one hiding-driver operation that opens the control device,
\* issues SET_ACTIVE and closes it.
HidHideResult == {"ok", "open_failed", "ioctl_failed"}

\* The Force worker leaves through one of these exits.
AcquisitionFailure == {"whitelist", "activate", "connect", "plug", "xinput"}

\* An early return: running.store(false) and the thread ends.
ForceReturn(reason, log) ==
    /\ WorkerStep("done", wi, log)
    /\ wexit' = reason
    /\ running' = FALSE
    /\ UNCHANGED <<inner_vars, thread_handle, elevated, ext_vars, targets, client, holder, last>>

\* A step that touches only the worker's position and call log.
ForceGoto(pc, i, log) ==
    /\ WorkerStep(pc, i, log)
    /\ UNCHANGED <<inner_vars, loop_vars, elevated, ext_vars, targets, client, wexit, holder, last>>

\* run_force_forwarding step 1: whitelist_self; an error ends the worker.
ForceWhitelist ==
    /\ wpc = "f_whitelist"
    /\ \E ok \in BOOLEAN :
         IF ok
         THEN ForceGoto("f_hide", 1, Append(wlog, Call("whitelist_self", 0, "ok")))
         ELSE ForceReturn("whitelist", Append(wlog, Call("whitelist_self", 0, "err")))

\* step 2: hide every path in sorted order, errors only logged.
ForceHide ==
    /\ wpc = "f_hide"
    /\ IF wi <= Len(sorted)
       THEN ForceGoto("f_hide", wi + 1, Append(wlog, Call("hide", PathAt(wi), "ignored")))
       ELSE ForceGoto("f_activate", 1, wlog)

\* step 3: HidHide::open then set_active(true).  Only a failed open ends the
\* worker, and it ends it without cleanup; a failed IOCTL is logged.
ForceActivate ==
    /\ wpc = "f_activate"
    /\ \E res \in HidHideResult :
         IF res = "open_failed"
         THEN ForceReturn("activate", Append(wlog, Call("set_active", 1, res)))
         ELSE ForceGoto("f_connect", 1, Append(wlog, Call("set_active", 1, res)))

\* Faulty variant of ForceConnect: a failed connect returns like the earlier steps,
\* without cleanup_force.
ForceConnectSkipsCleanup ==
    /\ wpc = "f_connect"
    /\ \E ok \in BOOLEAN :
         /\ WorkerStep(IF ok THEN "f_plug" ELSE "done", 1,
                       Append(wlog, Call("connect", 0, IF ok THEN "ok" ELSE "err")))
         /\ client' = ok
         /\ wexit' = IF ok THEN wexit ELSE "connect"
         /\ running' = IF ok THEN running ELSE FALSE
    /\ UNCHANGED <<inner_vars, thread_handle, elevated, ext_vars, targets, holder, last>>

\* step 4: Client::connect; on failure cleanup_force runs.
ForceConnect ==
    /\ wpc = "f_connect"
    /\ \E ok \in BOOLEAN :
         /\ WorkerStep(IF ok THEN "f_plug" ELSE "f_deactivate", 1,
                       Append(wlog, Call("connect", 0, IF ok THEN "ok" ELSE "err")))
         /\ client' = ok
         /\ wexit' = IF ok THEN wexit ELSE "connect"
    /\ UNCHANGED <<inner_vars, loop_vars, elevated, ext_vars, targets, holder, last>>

\* step 5: one plugin_wait per assignment; a failure runs cleanup_force while
\* the targets plugged so far are still alive.  After the loop, step 6 loads
\* the gamepad API.
ForcePlug ==
    /\ wpc = "f_plug"
    /\ IF wi <= Len(sorted)
       THEN \E ok \in BOOLEAN :
              /\ WorkerStep(IF ok THEN "f_plug" ELSE "f_deactivate",
                            IF ok THEN wi + 1 ELSE 1,
                            Append(wlog, Call("plug", wi, IF ok THEN "ok" ELSE "err")))
              /\ targets' = IF ok THEN targets + 1 ELSE targets
              /\ wexit' = IF ok THEN wexit ELSE "plug"
       ELSE /\ WorkerStep("f_xinput", 1, wlog)
            /\ UNCHANGED <<targets, wexit>>
    /\ UNCHANGED <<inner_vars, loop_vars, elevated, ext_vars, client, holder, last>>

\* step 6: XInputHandle::load_default; on failure cleanup_force runs.
ForceLoadXInput ==
    /\ wpc = "f_xinput"
    /\ \E ok \in BOOLEAN :
         /\ WorkerStep(IF ok THEN "f_loop" ELSE "f_deactivate", 1,
                       Append(wlog, Call("xinput_load", 0, IF ok THEN "ok" ELSE "err")))
         /\ wexit' = IF ok THEN wexit ELSE "xinput"
    /\ UNCHANGED <<inner_vars, loop_vars, elevated, ext_vars, targets, client, holder, last>>

\* Faulty variant of ForceLoopExit: the worker takes the inner lock before it
\* leaves the forwarding loop.
ForceLoopExitLocked ==
    /\ wpc = "f_loop"
    /\ ~running
    /\ holder = "none"
    /\ WorkerStep("f_drop_targets", 1, wlog)
    /\ wexit' = "stop"
    /\ UNCHANGED <<inner_vars, loop_vars, elevated, ext_vars, targets, client, holder, last>>

\* step 7: the forwarding loop ends when running is false; step 8 then drops
\* the targets before cleanup_force.
ForceLoopExit ==
    /\ wpc = "f_loop"
    /\ ~running
    /\ WorkerStep("f_drop_targets", 1, wlog)
    /\ wexit' = "stop"
    /\ UNCHANGED <<inner_vars, loop_vars, elevated, ext_vars, targets, client, holder, last>>

\* Dropping the Vec of targets unplugs them first to last.  On the stop path
\* this is the explicit drop(targets) before cleanup_force; on a failure path
\* it is the implicit drop of the locals at return, after cleanup_force.
ForceDropTargets ==
    /\ wpc = "f_drop_targets"
    /\ IF wi <= targets
       THEN WorkerStep("f_drop_targets", wi + 1, Append(wlog, Call("unplug", wi, "ignored")))
       ELSE WorkerStep(IF wexit = "stop" THEN "f_deactivate" ELSE "f_drop_client", 1, wlog)
    /\ UNCHANGED <<inner_vars, loop_vars, elevated, ext_vars, targets, client, wexit, holder, last>>

\* cleanup_force, first half: open the control device and set_active(false);
\* neither a failed open nor a failed IOCTL is looked at.
ForceDeactivate ==
    /\ wpc = "f_deactivate"
    /\ ForceGoto("f_unhide", 1, Append(wlog, Call("set_active", 0, "ignored")))

\* cleanup_force, second half: unhide every path in sorted order.  A failure
\* path then stores running = false and returns, which drops the locals.
ForceUnhide ==
    /\ wpc = "f_unhide"
    /\ IF wi <= Len(sorted)
       THEN /\ WorkerStep("f_unhide", wi + 1,
                          Append(wlog, Call("unhide", PathAt(wi), "ignored")))
            /\ UNCHANGED running
       ELSE /\ WorkerStep(IF wexit = "stop" THEN "f_drop_client" ELSE "f_drop_targets",
                          1, wlog)
            /\ running' = IF wexit = "stop" THEN running ELSE FALSE
    /\ UNCHANGED <<inner_vars, thread_handle, elevated, ext_vars, targets, client, wexit, holder, last>>

\* The bus client is the last local dropped; the thread ends.
ForceDropClient ==
    /\ wpc = "f_drop_client"
    /\ WorkerStep("done", wi,
                  IF client THEN Append(wlog, Call("disconnect", 0, "ignored")) ELSE wlog)
    /\ UNCHANGED <<inner_vars, loop_vars, elevated, ext_vars, targets, client, wexit, holder, last>>

Worker ==
    \/ MinimalDisable \/ MinimalEnable \/ MinimalHold \/ MinimalCleanup
    \/ ForceWhitelist \/ ForceHide \/ ForceActivate \/ ForceConnect \/ ForcePlug
    \/ ForceLoadXInput \/ ForceLoopExit \/ ForceDropTargets \/ ForceDeactivate
    \/ ForceUnhide \/ ForceDropClient

\* ------------------------------------------------------------- App State
\* Inner::start_forwarding down to InputLoop::start: what the call does.
\* "noop" (already active), an error kind, "already_running" (InputLoop::start
\* found running set) or "spawned".  It is preceded by a faulty variant that
\* runs the preflight check before looking at the flag.
StartOutcomePreflightFirst(active, mode, resolved, elev, hh, vg, is_running, spawn_ok) ==
    IF PreflightCheck(mode, elev, hh, vg) # "ok"
    THEN PreflightCheck(mode, elev, hh, vg)
    ELSE IF active THEN "noop"
    ELSE IF resolved = <<>> THEN "Forwarding"
    ELSE IF is_running THEN "already_running"
    ELSE IF ~spawn_ok THEN "Spawn"
    ELSE "spawned"

StartOutcome(active, mode, resolved, elev, hh, vg, is_running, spawn_ok) ==
    IF active THEN "noop"
    ELSE IF PreflightCheck(mode, elev, hh, vg) # "ok"
         THEN PreflightCheck(mode, elev, hh, vg)
    ELSE IF resolved = <<>> THEN "Forwarding"
    ELSE IF is_running THEN "already_running"
    ELSE IF ~spawn_ok THEN "Spawn"
    ELSE "spawned"

\* start_forwarding returns Ok(())
StartSucceeds(outcome) == outcome \in {"noop", "already_running", "spawned"}

\* Faulty variant of FlagAfterStart: start_forwarding spawns and leaves the flag.
FlagLeftAfterStart(before, outcome) == before

\* Inner.forwarding_active after start_forwarding: set only past the `?`s.
FlagAfterStart(before, outcome) == IF StartSucceeds(outcome) THEN TRUE ELSE before

\* InputLoop.running after InputLoop::start: set before the spawn, stored
\* back to false by the spawn's map_err.
RunningAfterStart(before, outcome) ==
    IF outcome = "spawned" THEN TRUE
    ELSE IF outcome = "Spawn" THEN FALSE
    ELSE before

\* Faulty variant of HandleAfterStop: stop joins through a borrowed handle and leaves
\* it in place.
HandleKeptAfterStop(before) == before

\* InputLoop.thread_handle after InputLoop::stop: take() leaves None.
HandleAfterStop(before) == FALSE

\* Faulty variant of FlagAfterStop: stop_forwarding joins and leaves the flag.
FlagKeptAfterStop(before) == before

\* Inner.forwarding_active after stop_forwarding.
FlagAfterStop(before) == FALSE

\* The request handlers run one at a time; a handler is inside a join when
\* holder names it, when ProcessWatcher::stop has cleared running and not yet
\* taken the handle, or when reset_all is under way.
MainThreadFree ==
    /\ holder = "none"
    /\ ~(watcher_handle /\ ~watcher_running)
    /\ rpc.at = "none"

\* commands::start_forwarding: lock, Inner::start_forwarding, unlock, and on
\* success emit forwarding-status {active: true}; an error returns through `?`
\* before anything is emitted.
StartForwardingWith(hh, vg, spawn_ok) ==
    /\ MainThreadFree
    /\ LET mode == ActiveRoutingMode(profiles, active_profile_id)
           resolved == ResolveAssignments(assignments, devices)
           outcome == StartOutcome(forwarding_active, mode, resolved, elevated,
                                   hh, vg, running, spawn_ok)
       IN /\ forwarding_active' = FlagAfterStart(forwarding_active, outcome)
          /\ running' = RunningAfterStart(running, outcome)
          /\ thread_handle' = IF outcome = "spawned" THEN TRUE ELSE thread_handle
          /\ IF outcome = "spawned"
             THEN SpawnWorker(mode, resolved)
             ELSE UNCHANGED worker_vars
          /\ last' = Returned("start_forwarding", StartSucceeds(outcome),
                              IF StartSucceeds(outcome)
                              THEN <<ForwardingStatus(TRUE, FALSE)>> ELSE <<>>,
                              forwarding_active, FALSE, outcome = "spawned")
    /\ UNCHANGED <<devices, assignments, profiles, active_profile_id, elevated, holder>>

StartForwarding ==
    /\ \E hh \in BOOLEAN, vg \in BOOLEAN, spawn_ok \in BOOLEAN :
         StartForwardingWith(hh, vg, spawn_ok)
    /\ UNCHANGED ext_vars

\* start_forwarding with the observer noting the driver status and outcome.
StartForwardingObserved ==
    /\ \E hh \in BOOLEAN, vg \in BOOLEAN, spawn_ok \in BOOLEAN :
         /\ StartForwardingWith(hh, vg, spawn_ok)
         /\ start_obs' = StartObserved(hh, vg,
               StartOutcome(forwarding_active,
                            ActiveRoutingMode(profiles, active_profile_id),
                            ResolveAssignments(assignments, devices),
                            elevated, hh, vg, running, spawn_ok))
    /\ UNCHANGED <<game_rules, processes, watcher_vars, rpc, plog, boot_vars, det_vars,
                   drv_vars, late_vars>>

\* commands::stop_forwarding up to handle.join(): the inner lock is taken,
\* Inner::stop_forwarding returns at once when inactive, else InputLoop::stop
\* clears running and joins (immediately when there is no handle).
StopForwarding ==
    /\ MainThreadFree
    /\ IF forwarding_active /\ thread_handle
       THEN /\ running' = FALSE
            /\ holder' = "stop_forwarding"
            /\ UNCHANGED <<forwarding_active, thread_handle, last>>
       ELSE /\ running' = IF forwarding_active THEN FALSE ELSE running
            /\ forwarding_active' = IF forwarding_active
                                    THEN FlagAfterStop(forwarding_active)
                                    ELSE forwarding_active
            /\ last' = Returned("stop_forwarding", TRUE, <<ForwardingStatus(FALSE, FALSE)>>,
                                forwarding_active, FALSE, FALSE)
            /\ UNCHANGED <<thread_handle, holder>>
    /\ UNCHANGED <<devices, assignments, profiles, active_profile_id, elevated, ext_vars, worker_vars>>

\* commands::stop_forwarding from the join on: the worker has ended, the flag
\* is cleared, the lock released and forwarding-status {active: false} emitted.
StopForwardingJoined ==
    /\ holder = "stop_forwarding"
    /\ wpc = "done"
    /\ NoWorker
    /\ thread_handle' = HandleAfterStop(thread_handle)
    /\ forwarding_active' = FlagAfterStop(forwarding_active)
    /\ holder' = "none"
    /\ last' = Returned("stop_forwarding", TRUE, <<ForwardingStatus(FALSE, FALSE)>>,
                        TRUE, TRUE, FALSE)
    /\ UNCHANGED <<devices, assignments, profiles, active_profile_id, running, elevated, ext_vars>>

\* commands::get_connected_devices: the first k controllers are connected.
GetConnectedDevices ==
    /\ MainThreadFree
    /\ \E k \in 0..NumDevices : devices' = EnumerateDevices(k)
    /\ last' = Returned("get_connected_devices", TRUE, <<>>, FALSE, FALSE, FALSE)
    /\ UNCHANGED <<assignments, forwarding_active, profiles, active_profile_id,
                   loop_vars, elevated, ext_vars, worker_vars, holder>>

\* commands::activate_profile: the id is written before config.save()?, the
\* assignments after it; forwarding is not touched.
ActivateProfile ==
    /\ MainThreadFree
    /\ \E pid \in RequestedIds, save_ok \in BOOLEAN :
         LET i == IndexOfId(profiles, pid)
         IN /\ active_profile_id' = IF i = 0 THEN active_profile_id ELSE Some(pid)
            /\ assignments' = IF i # 0 /\ save_ok THEN profiles[i].assignments
                              ELSE assignments
            /\ last' = Returned("activate_profile", i # 0 /\ save_ok, <<>>,
                                forwarding_active, FALSE, FALSE)
    /\ UNCHANGED <<devices, forwarding_active, profiles, loop_vars, elevated, ext_vars,
                   worker_vars, holder>>

\* tray::activate_profile_from_tray: as the command, with the save's result
\* dropped and profile-activated emitted; forwarding is not touched.
ActivateProfileFromTray ==
    /\ MainThreadFree
    /\ \E pid \in RequestedIds :
         LET i == IndexOfId(profiles, pid)
         IN /\ active_profile_id' = IF i = 0 THEN active_profile_id ELSE Some(pid)
            /\ assignments' = IF i # 0 THEN profiles[i].assignments ELSE assignments
            /\ last' = Returned("activate_profile_from_tray", i # 0,
                                IF i # 0 THEN <<ProfileActivated(pid)>> ELSE <<>>,
                                forwarding_active, FALSE, FALSE)
    /\ UNCHANGED <<devices, forwarding_active, profiles, loop_vars, elevated, ext_vars,
                   worker_vars, holder>>

\* process_watcher::activate_profile_internal up to the join inside
\* restart_forwarding: the profile is written, and when forwarding is active
\* Inner::stop_forwarding runs with the inner lock held.
ActivateProfileInternalCall(pid) ==
    /\ LET i == IndexOfId(profiles, pid)
       IN /\ active_profile_id' = IF i = 0 THEN active_profile_id ELSE Some(pid)
          /\ assignments' = IF i # 0 THEN profiles[i].assignments ELSE assignments
          /\ IF i # 0 /\ forwarding_active
             THEN /\ running' = FALSE
                  /\ holder' = "activate_profile_internal"
                  /\ UNCHANGED last
             ELSE /\ last' = Returned("activate_profile_internal", i # 0,
                                      IF i # 0 THEN <<ProfileActivated(pid)>> ELSE <<>>,
                                      FALSE, FALSE, FALSE)
                  /\ UNCHANGED <<running, holder>>
    /\ UNCHANGED <<devices, forwarding_active, profiles, thread_handle, elevated,
                   worker_vars, game_rules, processes, rpc, plog, aux_vars>>

\* The watcher entry point called with any profile id, stored or not.
ActivateProfileInternal ==
    /\ holder = "none"
    /\ \E pid \in RequestedIds : ActivateProfileInternalCall(pid)
    /\ UNCHANGED watcher_vars

\* activate_profile_internal from the join on: stop_forwarding clears the
\* flag, start_forwarding runs on the stopped state, a start error is emitted
\* as forwarding-status {active: false, error}, then profile-activated.
ActivateProfileInternalRestart ==
    /\ holder = "activate_profile_internal"
    /\ wpc = "done" \/ ~thread_handle
    /\ \E hh \in BOOLEAN, vg \in BOOLEAN, spawn_ok \in BOOLEAN :
         LET mode == ActiveRoutingMode(profiles, active_profile_id)
             resolved == ResolveAssignments(assignments, devices)
             stopped == FlagAfterStop(forwarding_active)
             outcome == StartOutcome(stopped, mode, resolved, elevated,
                                     hh, vg, FALSE, spawn_ok)
         IN /\ forwarding_active' = FlagAfterStart(stopped, outcome)
            /\ running' = RunningAfterStart(FALSE, outcome)
            /\ thread_handle' = IF outcome = "spawned" THEN TRUE
                                ELSE HandleAfterStop(thread_handle)
            /\ IF outcome = "spawned" THEN SpawnWorker(mode, resolved) ELSE NoWorker
            /\ last' = Returned("activate_profile_internal", TRUE,
                                (IF StartSucceeds(outcome) THEN <<>>
                                 ELSE <<ForwardingStatus(FALSE, TRUE)>>)
                                \o <<ProfileActivated(active_profile_id[1])>>,
                                TRUE, TRUE, outcome = "spawned")
    /\ holder' = "none"
    /\ UNCHANGED <<devices, assignments, profiles, active_profile_id, elevated, ext_vars>>

Command ==
    \/ StartForwarding \/ StopForwarding \/ StopForwardingJoined
    \/ GetConnectedDevices
    \/ ActivateProfile \/ ActivateProfileFromTray
    \/ ActivateProfileInternal \/ ActivateProfileInternalRestart

Next == Command \/ Worker

Spec == Init /\ [][Next]_vars

\* Starts and stops with an observer on every start: the UI enumerates,
\* activates profiles, starts and stops; no watcher runs.
StartNext ==
    \/ StartForwardingObserved \/ StopForwarding \/ StopForwardingJoined
    \/ GetConnectedDevices \/ ActivateProfile
    \/ Worker

StartSpec == Init /\ [][StartNext]_vars

\* ------------------------------------------------------ the process watcher
\* Everything but the watcher's own fields and locals.
app_vars == <<inner_vars, loop_vars, elevated, worker_vars, holder, last,
              game_rules, processes, rpc, plog, aux_vars>>

\* A fresh watcher thread: watcher_loop's locals start at None.
SpawnWatcher ==
    /\ tpc' = "top"
    /\ t_rules' = <<>>
    /\ t_current' = None
    /\ t_kind' = "none"
    /\ t_rule' = None
    /\ t_ok' = FALSE
    /\ active_rule_id' = None
    /\ pre_game_profile_id' = None
    /\ call' = NoActivation

\* commands::start_process_watcher -> ProcessWatcher::start
StartProcessWatcher ==
    /\ MainThreadFree
    /\ IF watcher_running
       THEN UNCHANGED watcher_vars
       ELSE /\ watcher_running' = TRUE
            /\ watcher_handle' = TRUE
            /\ SpawnWatcher
    /\ UNCHANGED <<inner_vars, loop_vars, elevated, worker_vars, holder, last,
                   game_rules, processes, rpc, plog, aux_vars>>

\* commands::stop_process_watcher -> ProcessWatcher::stop up to handle.join()
StopProcessWatcher ==
    /\ MainThreadFree
    /\ watcher_running' = FALSE
    /\ UNCHANGED <<inner_vars, loop_vars, elevated, worker_vars, holder, last,
                   game_rules, processes, rpc, plog, aux_vars,
                   watcher_handle, tpc, t_rules, t_current, t_kind, t_rule,
                   t_ok, active_rule_id, pre_game_profile_id, call>>

\* ProcessWatcher::stop from the join on: the thread has ended.
StopProcessWatcherJoined ==
    /\ rpc.at = "none"
    /\ watcher_handle /\ ~watcher_running
    /\ tpc = "done"
    /\ watcher_handle' = FALSE
    /\ tpc' = "none"
    /\ UNCHANGED <<inner_vars, loop_vars, elevated, worker_vars, holder, last,
                   game_rules, processes, rpc, plog, aux_vars,
                   watcher_running, t_rules, t_current, t_kind, t_rule,
                   t_ok, active_rule_id, pre_game_profile_id, call>>

\* watcher_loop, top of the loop (and the sleep slices before it): the thread
\* ends when running is clear, else it snapshots the rules and the active
\* profile id under the inner lock.
WatcherSnapshot ==
    /\ tpc = "top"
    /\ IF ~watcher_running
       THEN /\ tpc' = "done"
            /\ UNCHANGED <<t_rules, t_current>>
       ELSE /\ holder = "none"
            /\ t_rules' = game_rules
            /\ t_current' = active_profile_id
            /\ tpc' = "match"
    /\ UNCHANGED <<app_vars, watcher_running, watcher_handle, t_kind, t_rule,
                   t_ok, active_rule_id, pre_game_profile_id, call>>

\* watcher_loop: list the processes, find the matched rule and pick the arm
\* of the match on (active_rule_id, matched_rule).
WatcherMatch ==
    /\ tpc = "match"
    /\ LET matched == MatchedRule(t_rules, processes)
           kind == IF active_rule_id = None /\ matched # None THEN "launch"
                   ELSE IF active_rule_id # None /\ matched = None THEN "exit"
                   ELSE IF active_rule_id # None /\ matched # None
                           /\ active_rule_id[1] # matched[1].id THEN "switch"
                   ELSE "same"
       IN /\ t_rule' = matched
          /\ t_kind' = kind
          /\ tpc' = IF kind = "same" THEN "record"
                    ELSE IF kind = "exit" /\ pre_game_profile_id = None THEN "clear"
                    ELSE "activate"
    /\ UNCHANGED <<app_vars, watcher_running, watcher_handle, t_rules, t_current,
                   t_ok, active_rule_id, pre_game_profile_id, call>>

\* watcher_loop calls activate_profile_internal: with the rule's profile on a
\* launch or a switch, with the recorded pre-game profile on an exit.
WatcherActivate ==
    /\ tpc = "activate"
    /\ holder = "none"
    /\ LET pid == IF t_kind = "exit" THEN pre_game_profile_id[1]
                  ELSE t_rule[1].profile_id
       IN /\ ActivateProfileInternalCall(pid)
          /\ t_ok' = (IndexOfId(profiles, pid) # 0)
          /\ call' = Activated(Some(pid), IndexOfId(profiles, pid) # 0,
                               active_profile_id, active_profile_id', assignments')
    /\ tpc' = "record"
    /\ UNCHANGED <<watcher_running, watcher_handle, t_rules, t_current, t_kind,
                   t_rule, active_rule_id, pre_game_profile_id>>

\* watcher_loop, exit arm without a recorded profile: the active profile id is
\* cleared under the lock, the save's result dropped, profile-activated
\* emitted with a null id.
WatcherClear ==
    /\ tpc = "clear"
    /\ holder = "none"
    /\ active_profile_id' = None
    /\ last' = Returned("watcher_loop", TRUE, <<ProfileActivated(None)>>,
                        forwarding_active, FALSE, FALSE)
    /\ call' = Activated(None, TRUE, active_profile_id, None, assignments)
    /\ t_ok' = TRUE
    /\ tpc' = "record"
    /\ UNCHANGED <<devices, assignments, forwarding_active, profiles, loop_vars, elevated,
                   worker_vars, holder, game_rules, processes, rpc, plog, aux_vars,
                   watcher_running, watcher_handle, t_rules, t_current, t_kind,
                   t_rule, active_rule_id, pre_game_profile_id>>

\* Faulty variant of PreGameAfter: a launch records nothing.
PreGameNotRecorded(kind, ok, current, pre) ==
    IF kind = "exit" THEN None ELSE pre

\* Faulty variant of PreGameAfter: a launch records the snapshot whether or
\* not the activation found the profile.
PreGameAlwaysRecorded(kind, ok, current, pre) ==
    IF kind = "launch" THEN current
    ELSE IF kind = "exit" THEN None
    ELSE pre

\* pre_game_profile_id after the arm: a launch records the snapshot when the
\* activation returned true, an exit clears it, a switch leaves it.
PreGameAfter(kind, ok, current, pre) ==
    IF kind = "launch" THEN (IF ok THEN current ELSE pre)
    ELSE IF kind = "exit" THEN None
    ELSE pre

\* Faulty variant of RuleAfter: the matched rule becomes the active one
\* whatever the activation returned.
RuleAlwaysTaken(kind, ok, prior, matched) ==
    IF kind = "exit" THEN None
    ELSE IF kind = "same" THEN prior
    ELSE Some(matched[1].id)

\* active_rule_id after the arm: a launch or switch takes the matched rule's
\* id when the activation returned true, an exit clears it.
RuleAfter(kind, ok, prior, matched) ==
    IF kind = "exit" THEN None
    ELSE IF kind = "same" THEN prior
    ELSE IF ok THEN Some(matched[1].id) ELSE prior

\* watcher_loop after the activation returned: the arm's assignments to
\* active_rule_id and pre_game_profile_id (an exit clears active_rule_id
\* before its call; nothing else reads the local in between).  The iteration
\* ends here and its block-scoped locals are dropped.
WatcherRecord ==
    /\ tpc = "record"
    /\ holder # "activate_profile_internal"
    /\ pre_game_profile_id' = PreGameAfter(t_kind, t_ok, t_current, pre_game_profile_id)
    /\ active_rule_id' = RuleAfter(t_kind, t_ok, active_rule_id, t_rule)
    /\ tpc' = "top"
    /\ t_rules' = <<>>
    /\ t_current' = None
    /\ t_kind' = "none"
    /\ t_rule' = None
    /\ t_ok' = FALSE
    /\ call' = NoActivation
    /\ UNCHANGED <<app_vars, watcher_running, watcher_handle>>

WatcherThread ==
    \/ WatcherSnapshot \/ WatcherMatch \/ WatcherActivate \/ WatcherClear
    \/ WatcherRecord

\* The OS process table changes: any set of the names may be running.
ProcessChange ==
    /\ \E procs \in SUBSET ProcessNames : processes' = procs
    /\ processes' # processes
    /\ UNCHANGED <<inner_vars, loop_vars, elevated, worker_vars, holder, last,
                   game_rules, watcher_vars, rpc, plog, aux_vars>>

\* Faulty variant of DeleteProfile: the rules naming the profile stay.
DeleteProfileKeepsRules ==
    /\ MainThreadFree
    /\ \E pid \in RequestedIds :
         /\ profiles' = SelectSeq(profiles, LAMBDA p : p.id # pid)
         /\ active_profile_id' = IF active_profile_id = Some(pid) THEN None
                                 ELSE active_profile_id
    /\ UNCHANGED <<devices, assignments, forwarding_active, loop_vars, elevated,
                   worker_vars, holder, last, game_rules, processes, watcher_vars,
                   rpc, plog, aux_vars>>

\* commands::delete_profile: the profile and the rules naming it are removed
\* and the active id cleared when it was the one; config.save()? comes after
\* the writes and decides only the value returned.
DeleteProfile ==
    /\ MainThreadFree
    /\ \E pid \in RequestedIds :
         /\ profiles' = SelectSeq(profiles, LAMBDA p : p.id # pid)
         /\ game_rules' = SelectSeq(game_rules, LAMBDA r : r.profile_id # pid)
         /\ active_profile_id' = IF active_profile_id = Some(pid) THEN None
                                 ELSE active_profile_id
    /\ UNCHANGED <<devices, assignments, forwarding_active, loop_vars, elevated,
                   worker_vars, holder, last, processes, watcher_vars, rpc, plog, aux_vars>>

\* commands::toggle_game_rule: the rule with that id, if any, gets the flag;
\* config.save()? comes after the write and decides only the value returned.
ToggleGameRule ==
    /\ MainThreadFree
    /\ \E rule_id \in RuleIds, enabled \in BOOLEAN :
         game_rules' = [i \in 1..Len(game_rules) |->
                           IF i = IndexOfId(game_rules, rule_id)
                           THEN [game_rules[i] EXCEPT !.enabled = enabled]
                           ELSE game_rules[i]]
    /\ UNCHANGED <<inner_vars, loop_vars, elevated, worker_vars, holder, last, processes,
                   watcher_vars, rpc, plog, aux_vars>>

\* The watcher with the profile and rule commands; forwarding is not started.
WatcherCommand ==
    \/ StartProcessWatcher \/ StopProcessWatcher \/ StopProcessWatcherJoined
    \/ ActivateProfile \/ DeleteProfile \/ ToggleGameRule

WatcherNext == WatcherCommand \/ WatcherThread \/ ProcessChange

\* The process runs elevated; elevation only matters to a forwarding start.
WatcherSpecInit == Init /\ elevated

WatcherSpec == WatcherSpecInit /\ [][WatcherNext]_vars

\* The auto-switch scenario: every controller is enumerated, profile P2 has
\* been activated and the watcher started (get_connected_devices,
\* activate_profile and start_process_watcher have returned); from there the
\* process table changes, the watcher runs and forwarding is started and
\* stopped, with no other profile or rule command.
AutoSwitchInit ==
    /\ devices = EnumerateDevices(NumDevices)
    /\ assignments = SwappedAssignments
    /\ forwarding_active = FALSE
    /\ profiles = InitProfiles
    /\ active_profile_id = Some("P2")
    /\ running = FALSE
    /\ thread_handle = FALSE
    /\ elevated \in BOOLEAN
    /\ wpc = "none"
    /\ wmode = DefaultRoutingMode
    /\ wassign = <<>>
    /\ sorted = <<>>
    /\ wi = 1
    /\ targets = 0
    /\ client = FALSE
    /\ wexit = "none"
    /\ wlog = <<>>
    /\ holder = "none"
    /\ last = Returned("activate_profile", TRUE, <<>>, FALSE, FALSE, FALSE)
    /\ game_rules = InitGameRules
    /\ processes = {}
    /\ watcher_running = TRUE
    /\ watcher_handle = TRUE
    /\ tpc = "top"
    /\ t_rules = <<>>
    /\ t_current = None
    /\ t_kind = "none"
    /\ t_rule = None
    /\ t_ok = FALSE
    /\ active_rule_id = None
    /\ pre_game_profile_id = None
    /\ call = NoActivation
    /\ rpc = NoReset
    /\ plog = <<>>
    /\ SetupDone
    /\ HelpersIdle

AutoSwitchCommand ==
    \/ StartForwarding \/ StopForwarding \/ StopForwardingJoined
    \/ ActivateProfileInternalRestart

\* The watcher's steps in the scenario: a profile is recorded at every
\* launch, so the exit arm that clears the active profile is never entered
\* (C15 states tpc # "clear").
AutoSwitchWatcher ==
    \/ WatcherSnapshot \/ WatcherMatch \/ WatcherActivate \/ WatcherRecord

AutoSwitchNext == AutoSwitchCommand \/ Worker \/ AutoSwitchWatcher \/ ProcessChange

AutoSwitchSpec == AutoSwitchInit /\ [][AutoSwitchNext]_vars

\* ------------------------------------------- editing assignments and slots
\* commands::apply_assignments: the list is stored as passed.
ApplyAssignmentsFrom(inputs) ==
    /\ MainThreadFree
    /\ \E a \in inputs : assignments' = a
    /\ last' = Returned("apply_assignments", TRUE, <<>>, forwarding_active, FALSE, FALSE)
    /\ UNCHANGED <<devices, forwarding_active, profiles, active_profile_id,
                   loop_vars, elevated, ext_vars, worker_vars, holder>>

ApplyAssignments == ApplyAssignmentsFrom(AssignmentInputs)

\* commands::save_profile: a profile with a fresh id and the passed list is
\* pushed, then config.save()? decides the result.
SaveProfile ==
    /\ MainThreadFree
    /\ IndexOfId(profiles, NewProfileId) = 0
    /\ \E a \in AssignmentInputs, mode \in {"Minimal", "Force"}, save_ok \in BOOLEAN :
         /\ profiles' = Append(profiles, [id |-> NewProfileId, assignments |-> a,
                                          routing_mode |-> mode])
         /\ last' = Returned("save_profile", save_ok, <<>>, forwarding_active, FALSE, FALSE)
    /\ UNCHANGED <<devices, assignments, forwarding_active, active_profile_id,
                   loop_vars, elevated, ext_vars, worker_vars, holder>>

\* commands::confirm_device_slot: the first device with the id gets the slot;
\* an unknown id changes nothing; the result is Ok either way.
ConfirmDeviceSlot ==
    /\ MainThreadFree
    /\ \E device_id \in ConfirmedIds, xinput_slot \in ConfirmedSlots :
         LET i == IndexOfId(devices, device_id)
         IN devices' = IF i = 0 THEN devices
                       ELSE [devices EXCEPT ![i].xinput_slot = Some(xinput_slot)]
    /\ last' = Returned("confirm_device_slot", TRUE, <<>>, forwarding_active, FALSE, FALSE)
    /\ UNCHANGED <<assignments, forwarding_active, profiles, active_profile_id,
                   loop_vars, elevated, ext_vars, worker_vars, holder>>

\* The process runs elevated, so that either pipeline can be started.
AssignInit == Init /\ elevated

AssignCommand ==
    \/ ApplyAssignments \/ SaveProfile \/ ActivateProfile
    \/ GetConnectedDevices
    \/ StartForwarding \/ StopForwarding \/ StopForwardingJoined

\* The UI edits assignments and profiles around enumerations and forwarding
\* sessions; no watcher runs.
AssignNext == AssignCommand \/ Worker

AssignSpec == AssignInit /\ [][AssignNext]_vars

\* commands::get_connected_devices when SetupAPI misses a controller that
\* XInput reports: one slot more answers than real devices were found.
GetConnectedDevicesUnmatched ==
    /\ MainThreadFree
    /\ \E real \in 0..(NumDevices - 1) : devices' = EnumerateJoin(real, real + 1)
    /\ last' = Returned("get_connected_devices", TRUE, <<>>, FALSE, FALSE, FALSE)
    /\ UNCHANGED <<assignments, forwarding_active, profiles, active_profile_id,
                   loop_vars, elevated, ext_vars, worker_vars, holder>>

ApplyFallbackAssignments == ApplyAssignmentsFrom({FallbackAssignments})

\* Forwarding sessions over device tables with a fallback entry.
FallbackNext ==
    \/ GetConnectedDevicesUnmatched \/ ApplyFallbackAssignments
    \/ StartForwarding \/ StopForwarding \/ StopForwardingJoined
    \/ Worker

FallbackSpec == Init /\ [][FallbackNext]_vars

\* ------------------------------------------------------- the Linux build
\* run_minimal as compiled for Linux: an error is logged, running is cleared
\* and the thread ends without a call on any device.
LinuxRunMinimal ==
    /\ wpc = "m_disable"
    /\ WorkerStep("done", wi, wlog)
    /\ wexit' = "unsupported"
    /\ running' = FALSE
    /\ UNCHANGED <<inner_vars, thread_handle, elevated, ext_vars, targets, client,
                   holder, last>>

\* platform::is_elevated() is true on Linux; the sessions are Minimal ones
\* (no active profile, or the Minimal profile P1).
LinuxInit ==
    /\ Init
    /\ elevated
    /\ ActiveRoutingMode(profiles, active_profile_id) = "Minimal"

LinuxNext ==
    \/ GetConnectedDevices \/ ApplyAssignments
    \/ StartForwarding \/ StopForwarding \/ StopForwardingJoined
    \/ LinuxRunMinimal

LinuxSpec == LinuxInit /\ [][LinuxNext]_vars

\* The device table under enumerations and slot confirmations, with profile
\* activations in between.
DeviceTableNext == GetConnectedDevices \/ ConfirmDeviceSlot \/ ActivateProfile

DeviceTableSpec == Init /\ [][DeviceTableNext]_vars

\* ------------------------------------------------------------- reset_all
\* Faulty variant of ResetPlatformCalls: the first failing call ends the
\* loop, as `?` would.
ResetPlatformCallsUntilError(devs, res) ==
    LET n == 2 * Len(devs) + 1
        all == [k \in 1..n |->
                   IF k = n THEN Call("deactivate_hiding", 0, res[k])
                   ELSE IF k % 2 = 1
                        THEN Call("enable", devs[(k + 1) \div 2].instance_path, res[k])
                        ELSE Call("unhide", devs[k \div 2].instance_path, res[k])]
    IN IF \E k \in 1..n : res[k] = "err"
       THEN SubSeq(all, 1, CHOOSE k \in 1..n :
                               res[k] = "err" /\ \A j \in 1..(k - 1) : res[j] = "ok")
       ELSE all

\* reset_all steps 3 and 4: for every path of the device table enable then
\* unhide, each result only logged, then deactivate_hiding; res[k] is the
\* result of the k-th call.
ResetPlatformCalls(devs, res) ==
    LET n == 2 * Len(devs) + 1
    IN [k \in 1..n |->
           IF k = n THEN Call("deactivate_hiding", 0, res[k])
           ELSE IF k % 2 = 1
                THEN Call("enable", devs[(k + 1) \div 2].instance_path, res[k])
                ELSE Call("unhide", devs[k \div 2].instance_path, res[k])]

\* The results the platform calls of one reset may have: all succeed, all
\* fail, only the first fails, only the last fails.
ResetResults(n) ==
    { [k \in 1..n |-> "ok"], [k \in 1..n |-> "err"],
      [k \in 1..n |-> IF k = 1 THEN "err" ELSE "ok"],
      [k \in 1..n |-> IF k = n THEN "err" ELSE "ok"] }

\* commands::reset_all and tray::reset_from_tray, step 1 up to the join in
\* ProcessWatcher::stop.
ResetAll ==
    /\ MainThreadFree
    /\ \E op \in {"reset_all", "reset_from_tray"} : rpc' = Resetting(op, "watcher", FALSE, FALSE)
    /\ watcher_running' = FALSE
    /\ plog' = <<>>
    /\ UNCHANGED <<inner_vars, loop_vars, elevated, worker_vars, holder, last,
                   game_rules, processes, aux_vars,
                   watcher_handle, tpc, t_rules, t_current, t_kind, t_rule,
                   t_ok, active_rule_id, pre_game_profile_id, call>>

\* The watcher thread has ended (or there was none); step 2 takes the inner
\* lock and stops forwarding, up to the join in InputLoop::stop.
ResetAllStopForwarding ==
    /\ rpc.at = "watcher"
    /\ tpc \in {"none", "done"}
    /\ holder = "none"
    /\ watcher_handle' = FALSE
    /\ tpc' = "none"
    /\ IF forwarding_active /\ thread_handle
       THEN /\ running' = FALSE
            /\ holder' = "reset_all"
            /\ rpc' = Resetting(rpc.op, "worker", TRUE, TRUE)
            /\ UNCHANGED forwarding_active
       ELSE /\ running' = IF forwarding_active THEN FALSE ELSE running
            /\ forwarding_active' = FlagAfterStop(forwarding_active)
            /\ rpc' = Resetting(rpc.op, "devices", forwarding_active, FALSE)
            /\ UNCHANGED holder
    /\ UNCHANGED <<devices, assignments, profiles, active_profile_id, thread_handle,
                   elevated, worker_vars, last, game_rules, processes, aux_vars, plog,
                   watcher_running, t_rules, t_current, t_kind, t_rule,
                   t_ok, active_rule_id, pre_game_profile_id, call>>

\* Step 2 from the join on: the worker has ended, the flag is cleared and
\* the lock released.
ResetAllWorkerJoined ==
    /\ rpc.at = "worker"
    /\ holder = "reset_all"
    /\ wpc = "done"
    /\ NoWorker
    /\ thread_handle' = HandleAfterStop(thread_handle)
    /\ forwarding_active' = FlagAfterStop(forwarding_active)
    /\ holder' = "none"
    /\ rpc' = Resetting(rpc.op, "devices", TRUE, TRUE)
    /\ UNCHANGED <<devices, assignments, profiles, active_profile_id, running, elevated,
                   last, game_rules, processes, aux_vars, plog, watcher_vars>>

\* Steps 3 to 6: the paths of the device table are read, the platform calls
\* made, the active profile and the assignments cleared (the save's result
\* dropped), both events emitted, and the reset returns success.
ResetAllFinish ==
    /\ rpc.at = "devices"
    /\ \E res \in ResetResults(2 * Len(devices) + 1) :
         plog' = ResetPlatformCalls(devices, res)
    /\ active_profile_id' = None
    /\ assignments' = <<>>
    /\ last' = Returned(rpc.op, TRUE,
                        <<ForwardingStatus(FALSE, FALSE), ProfileActivated(None)>>,
                        rpc.was_active, rpc.joined, FALSE)
    /\ rpc' = NoReset
    /\ UNCHANGED <<devices, forwarding_active, profiles, loop_vars, elevated,
                   worker_vars, holder, game_rules, processes, aux_vars, watcher_vars>>

Reset ==
    \/ ResetAll \/ ResetAllStopForwarding \/ ResetAllWorkerJoined \/ ResetAllFinish

\* The auto-switch scenario with the reset and a watcher start as further
\* commands.
ResetNext ==
    \/ AutoSwitchNext \/ WatcherClear \/ Reset
    \/ StartProcessWatcher

ResetSpec == AutoSwitchInit /\ [][ResetNext]_vars

\* ------------------------------------------------------- the setup closure
\* Faulty variant of SetupSweepCalls: the global deactivation is made only
\* when the enumeration succeeded.
SetupSweepCallsInsideIf(found, res) ==
    IF found = None THEN <<>> ELSE ResetPlatformCalls(found[1], res)

\* check_dirty_shutdown, the sweep: enable then unhide on every enumerated
\* path when enumerate_devices returned Ok, then deactivate_hiding either
\* way; every result is dropped.
SetupSweepCalls(found, res) ==
    IF found = None THEN <<Call("deactivate_hiding", 0, res[1])>>
    ELSE ResetPlatformCalls(found[1], res)

\* check_dirty_shutdown up to the sweep: without a lockfile it returns at
\* once; with one, remove_file is called and its result dropped.
SetupCheck ==
    /\ spc = "setup"
    /\ IF lockfile = None
       THEN /\ slog' = <<Call("exists", 0, "absent")>>
            /\ spc' = "lock"
            /\ UNCHANGED lockfile
       ELSE \E res \in {"ok", "err"} :
            /\ slog' = <<Call("exists", 0, "present"), Call("remove_file", 0, res)>>
            /\ lockfile' = IF res = "ok" THEN None ELSE lockfile
            /\ spc' = "sweep"
    /\ UNCHANGED <<helper_vars, inner_vars, loop_vars, elevated, worker_vars, holder, last,
                   game_rules, processes, watcher_vars, rpc, plog>>

\* check_dirty_shutdown, enumeration and sweep: the devices found stay local
\* to the function.
SetupSweep ==
    /\ spc = "sweep"
    /\ \E found \in {None} \cup {Some(EnumerateDevices(k)) : k \in 0..NumDevices} :
         \E res \in ResetResults(IF found = None THEN 1 ELSE 2 * Len(found[1]) + 1) :
            slog' = slog
                    \o <<Call("enumerate_devices",
                               IF found = None THEN 0 ELSE Len(found[1]),
                               IF found = None THEN "err" ELSE "ok")>>
                    \o SetupSweepCalls(found, res)
    /\ spc' = "clear"
    /\ UNCHANGED <<helper_vars, inner_vars, loop_vars, elevated, worker_vars, holder, last,
                   game_rules, processes, watcher_vars, rpc, plog, lockfile>>

\* check_dirty_shutdown, the end: the active profile id is cleared under the
\* inner lock and the config saved, the result dropped.
SetupClear ==
    /\ spc = "clear"
    /\ active_profile_id' = None
    /\ \E res \in {"ok", "err"} : slog' = Append(slog, Call("save", 0, res))
    /\ spc' = "lock"
    /\ UNCHANGED <<helper_vars, devices, assignments, forwarding_active, profiles, loop_vars,
                   elevated, worker_vars, holder, last,
                   game_rules, processes, watcher_vars, rpc, plog, lockfile>>

\* create_lockfile: the pid is written, the result dropped.
SetupLock ==
    /\ spc = "lock"
    /\ \E res \in {"ok", "err"} :
         /\ slog' = Append(slog, Call("write", Pid, res))
         /\ lockfile' = IF res = "ok" THEN Some(Pid) ELSE lockfile
    /\ spc' = "watcher"
    /\ UNCHANGED <<helper_vars, inner_vars, loop_vars, elevated, worker_vars, holder, last,
                   game_rules, processes, watcher_vars, rpc, plog>>

\* The setup closure's end: the watcher is started when settings.auto_switch
\* is set.
SetupWatcher ==
    /\ spc = "watcher"
    /\ \E auto_switch \in BOOLEAN :
         IF auto_switch /\ ~watcher_running
         THEN /\ watcher_running' = TRUE
              /\ watcher_handle' = TRUE
              /\ SpawnWatcher
         ELSE UNCHANGED watcher_vars
    /\ spc' = "done"
    /\ UNCHANGED <<helper_vars, inner_vars, loop_vars, elevated, worker_vars, holder, last,
                   game_rules, processes, rpc, plog, lockfile, slog>>

Setup == SetupCheck \/ SetupSweep \/ SetupClear \/ SetupLock \/ SetupWatcher

\* Process start: constructed, the setup closure not yet run, the lockfile
\* absent or left by a session that did not exit cleanly.
SetupInit ==
    /\ Constructed
    /\ lockfile \in {None, Some(OldPid)}
    /\ spc = "setup"
    /\ slog = <<>>
    /\ HelpersIdle

SetupSpec == SetupInit /\ [][Setup]_vars

\* ---------------------------------------------------- detect_xinput_slot
\* u16 a & !b, bit by bit.
RECURSIVE AndNot(_, _)
AndNot(a, b) ==
    IF a = 0 THEN 0
    ELSE (a % 2) * (1 - (b % 2)) + 2 * AndNot(a \div 2, b \div 2)

\* Faulty variant of NewlyPressed: any change of the word counts.
ButtonsChanged(buttons, base) == buttons # base

\* gs.buttons & !baseline[slot] != 0
NewlyPressed(buttons, base) == AndNot(buttons, base) # 0

\* baseline[slot]: 0 unless the slot answered.
Baseline(read) == IF read = None THEN 0 ELSE read[1]

\* The slot the next poll read addresses: passes go through the slots in
\* order.
NextPolledSlot == Len(polled) % 4

\* detect_xinput_slot, the baseline snapshot of all four slots.
DetectBaseline ==
    /\ det_pc = "idle"
    /\ base_read' \in [XInputSlots -> UNION {Readings(s) : s \in XInputSlots}]
    /\ \A s \in XInputSlots : base_read'[s] \in Readings(s)
    /\ det_pc' = "poll"
    /\ polled' = <<>>
    /\ detected' = None
    /\ UNCHANGED <<inner_vars, loop_vars, elevated, worker_vars, holder, last,
                   game_rules, processes, watcher_vars, rpc, plog, boot_vars, start_obs, drv_vars, late_vars>>

\* One read of one slot inside a poll pass: a newly pressed bit returns the
\* slot, an Err or no new bit goes on to the next slot.
DetectPoll ==
    /\ det_pc = "poll"
    /\ Len(polled) < 4 * MaxPolls
    /\ \E r \in Readings(NextPolledSlot) :
         /\ polled' = Append(polled, r)
         /\ IF r # None /\ NewlyPressed(r[1], Baseline(base_read[NextPolledSlot]))
            THEN /\ detected' = Some(NextPolledSlot)
                 /\ det_pc' = "returned"
            ELSE UNCHANGED <<detected, det_pc>>
    /\ UNCHANGED <<inner_vars, loop_vars, elevated, worker_vars, holder, last,
                   game_rules, processes, watcher_vars, rpc, plog, boot_vars, start_obs, drv_vars, late_vars,
                   base_read>>

\* The deadline is found passed at the top of the loop, between passes.
DetectTimeout ==
    /\ det_pc = "poll"
    /\ Len(polled) % 4 = 0
    /\ det_pc' = "returned"
    /\ detected' = None
    /\ UNCHANGED <<inner_vars, loop_vars, elevated, worker_vars, holder, last,
                   game_rules, processes, watcher_vars, rpc, plog, boot_vars, start_obs, drv_vars, late_vars,
                   base_read, polled>>

Detect == DetectBaseline \/ DetectPoll \/ DetectTimeout

DetectSpec == Init /\ [][Detect]_vars

\* ------------------------------------------- the hiding-driver handle
\* One call that reaches hidhide.rs: its name and the instance path it is
\* about (0 when it has none).
HidingOp(op, path) == [op |-> op, path |-> path]

\* The instance paths of the connected controllers.
DevicePaths == [d \in 1..NumDevices |-> InstancePath(d)]

\* run_force_forwarding and cleanup_force: the hiding calls the Force worker
\* makes from spawn to exit, in order.  Each one opens its own handle: the
\* DeviceHider methods through `let hh = HidHide::open()?`, the activation
\* and the deactivation through HidHide::open() in the worker itself.
RunForceHidingOps(paths) ==
    <<HidingOp("whitelist_self", 0)>>
    \o [k \in 1..Len(paths) |-> HidingOp("hide_device", paths[k])]
    \o <<HidingOp("activate", 0), HidingOp("deactivate", 0)>>
    \o [k \in 1..Len(paths) |-> HidingOp("unhide_device", paths[k])]

\* A failure of these two makes the worker return at once, with no cleanup.
WorkerAbortsOn == {"whitelist_self", "activate"}

\* toggle_device under a Force profile: one hide or unhide of the path.
ToggleDeviceOps(path, hidden) ==
    <<HidingOp(IF hidden THEN "hide_device" ELSE "unhide_device", path)>>

\* check_driver_status: check_drivers probes with HidHide::is_installed.
CheckDriverStatusOps == <<HidingOp("is_installed", 0)>>

\* reset_all after the worker is joined: unhide every device, then
\* deactivate (enable_device goes through SetupAPI and opens no handle).
ResetAllHidingOps(paths) ==
    [k \in 1..Len(paths) |-> HidingOp("unhide_device", paths[k])]
    \o <<HidingOp("deactivate_hiding", 0)>>

\* InputLoop::start spawns the Force worker: a command on the UI thread, so
\* no other command is running, and no worker is alive.
SpawnForceWorker ==
    /\ hh_todo["worker"] = <<>>
    /\ hh_todo["ui"] = <<>>
    /\ hh_todo' = [hh_todo EXCEPT !["worker"] = RunForceHidingOps(DevicePaths)]
    /\ UNCHANGED <<hh_owner, hh_at>>

\* toggle_device: the platform call is made without the inner lock and
\* whatever the worker is doing.
ToggleDevice ==
    /\ hh_todo["ui"] = <<>>
    /\ \E d \in 1..NumDevices, hidden \in BOOLEAN :
         hh_todo' = [hh_todo EXCEPT !["ui"] = ToggleDeviceOps(InstancePath(d), hidden)]
    /\ UNCHANGED <<hh_owner, hh_at>>

CheckDriverStatus ==
    /\ hh_todo["ui"] = <<>>
    /\ hh_todo' = [hh_todo EXCEPT !["ui"] = CheckDriverStatusOps]
    /\ UNCHANGED <<hh_owner, hh_at>>

\* reset_all reaches its platform calls after stop_forwarding joined the
\* worker.
ResetAllHiding ==
    /\ hh_todo["ui"] = <<>>
    /\ hh_todo["worker"] = <<>>
    /\ hh_todo' = [hh_todo EXCEPT !["ui"] = ResetAllHidingOps(DevicePaths)]
    /\ UNCHANGED <<hh_owner, hh_at>>

\* What is left for thread t to do when the call at the head of its list
\* has failed or has returned.
AfterHidingOp(t, failed) ==
    IF failed /\ t = "worker" /\ Head(hh_todo[t]).op \in WorkerAbortsOn
    THEN <<>>
    ELSE Tail(hh_todo[t])

\* HidHide::open: CreateFileW on the control device, asking for shared read
\* and write.  Nothing in the process orders the threads' calls, so the call
\* is made whether or not another thread holds a handle; whether the driver
\* then grants a second handle or refuses it is the driver's choice.
HidHideOpen(t) ==
    /\ hh_todo[t] # <<>>
    /\ hh_at[t] = "closed"
    /\ \E granted \in BOOLEAN :
         IF granted
         THEN /\ hh_owner' = hh_owner \cup {t}
              /\ hh_at' = [hh_at EXCEPT ![t] = "open"]
              /\ UNCHANGED hh_todo
         ELSE /\ hh_todo' = [hh_todo EXCEPT ![t] = AfterHidingOp(t, TRUE)]
              /\ UNCHANGED <<hh_owner, hh_at>>

\* The one operation made on the handle (add_to_blacklist, set_active, ...):
\* its IOCTLs succeed or one of them fails.  is_installed makes none.
HidHideIoctl(t) ==
    /\ hh_at[t] = "open"
    /\ Head(hh_todo[t]).op # "is_installed"
    /\ \E ok \in BOOLEAN :
         hh_at' = [hh_at EXCEPT ![t] = IF ok THEN "used" ELSE "failed"]
    /\ UNCHANGED <<hh_owner, hh_todo>>

\* Drop for HidHide: CloseHandle when `hh` goes out of scope, at the end of
\* the call.
HidHideDrop(t) ==
    /\ \/ hh_at[t] \in {"used", "failed"}
       \/ hh_at[t] = "open" /\ Head(hh_todo[t]).op = "is_installed"
    /\ hh_owner' = hh_owner \ {t}
    /\ hh_todo' = [hh_todo EXCEPT ![t] = AfterHidingOp(t, hh_at[t] = "failed")]
    /\ hh_at' = [hh_at EXCEPT ![t] = "closed"]

HidingCall ==
    \E t \in HidingThreads : HidHideOpen(t) \/ HidHideIoctl(t) \/ HidHideDrop(t)

HidingNext ==
    /\ \/ SpawnForceWorker
       \/ ToggleDevice
       \/ CheckDriverStatus
       \/ ResetAllHiding
       \/ HidingCall
    /\ UNCHANGED <<inner_vars, loop_vars, elevated, worker_vars, holder, last,
                   game_rules, processes, watcher_vars, rpc, plog, boot_vars,
                   det_vars, start_obs, bl_vars, ms_vars, late_vars>>

HidingSpec == Init /\ [][HidingNext]_vars

\* ------------------------------------------------ the driver's blacklist
\* Calls made on the blacklist in one run, at most.
MaxCalls == 3

\* char::to_uppercase on the letters instance paths are written with.
ToUpperChar(c) ==
    CASE c = "u" -> "U"
      [] c = "s" -> "S"
      [] c = "b" -> "B"
      [] OTHER -> c

\* str::to_uppercase
ToUppercase(s) == [i \in DOMAIN s |-> ToUpperChar(s[i])]

\* Instance paths handed to the calls: one path as SetupAPI spells it, the
\* same path in lower case, in mixed case, and a second device.
PathInputs ==
    { <<"U", "S", "B", "1">>, <<"u", "s", "b", "1">>, <<"U", "s", "b", "1">>,
      <<"U", "S", "B", "2">> }

\* One call on the blacklist: the list the driver held before it, the
\* IOCTLs it issued, in order, and what it returned.
BlacklistCall(op, path, before, ioctls, res) ==
    [op |-> op, path |-> path, before |-> before, ioctls |-> ioctls, res |-> res]

\* list.iter().any(|s| s == instance_path): the test without normalising.
ContainsExactly(list, path) ==
    \E i \in 1..Len(list) : list[i] = path

\* list.iter().any(|s| s.to_uppercase() == normalized)
ContainsIgnoreCase(list, path) ==
    \E i \in 1..Len(list) : ToUppercase(list[i]) = ToUppercase(path)

\* list.retain(|s| s.to_uppercase() != normalized)
RECURSIVE RetainOthers(_, _)
RetainOthers(list, path) ==
    IF list = <<>> THEN <<>>
    ELSE IF ToUppercase(Head(list)) # ToUppercase(path)
         THEN <<Head(list)>> \o RetainOthers(Tail(list), path)
         ELSE RetainOthers(Tail(list), path)

\* HidHide::add_to_blacklist on an open handle: ioctl_get_list (the `?`
\* returns its error), then the push and ioctl_set_list only when no entry
\* equals the path after upper-casing both.
AddToBlacklist ==
    /\ Len(bl_log) < MaxCalls
    /\ \E path \in PathInputs, get_ok \in BOOLEAN, set_ok \in BOOLEAN :
         IF ~get_ok
         THEN /\ bl_log' = Append(bl_log,
                    BlacklistCall("add", path, blacklist, <<"GET_BLACKLIST">>, "err"))
              /\ UNCHANGED blacklist
         ELSE IF ContainsIgnoreCase(blacklist, path)
         THEN /\ bl_log' = Append(bl_log,
                    BlacklistCall("add", path, blacklist, <<"GET_BLACKLIST">>, "ok"))
              /\ UNCHANGED blacklist
         ELSE /\ bl_log' = Append(bl_log,
                    BlacklistCall("add", path, blacklist,
                                  <<"GET_BLACKLIST", "SET_BLACKLIST">>,
                                  IF set_ok THEN "ok" ELSE "err"))
              /\ blacklist' = IF set_ok THEN Append(blacklist, path) ELSE blacklist

\* HidHide::remove_from_blacklist: ioctl_get_list, retain, and ioctl_set_list
\* only when the length changed.
RemoveFromBlacklist ==
    /\ Len(bl_log) < MaxCalls
    /\ \E path \in PathInputs, get_ok \in BOOLEAN, set_ok \in BOOLEAN :
         LET kept == RetainOthers(blacklist, path)
         IN IF ~get_ok
            THEN /\ bl_log' = Append(bl_log,
                       BlacklistCall("remove", path, blacklist, <<"GET_BLACKLIST">>, "err"))
                 /\ UNCHANGED blacklist
            ELSE IF Len(kept) = Len(blacklist)
            THEN /\ bl_log' = Append(bl_log,
                       BlacklistCall("remove", path, blacklist, <<"GET_BLACKLIST">>, "ok"))
                 /\ UNCHANGED blacklist
            ELSE /\ bl_log' = Append(bl_log,
                       BlacklistCall("remove", path, blacklist,
                                     <<"GET_BLACKLIST", "SET_BLACKLIST">>,
                                     IF set_ok THEN "ok" ELSE "err"))
                 /\ blacklist' = IF set_ok THEN kept ELSE blacklist

BlacklistNext ==
    /\ AddToBlacklist \/ RemoveFromBlacklist
    /\ UNCHANGED <<inner_vars, loop_vars, elevated, worker_vars, holder, last,
                   game_rules, processes, watcher_vars, rpc, plog, boot_vars,
                   det_vars, start_obs, hh_vars, ms_vars, late_vars>>

BlacklistSpec == Init /\ [][BlacklistNext]_vars

\* ------------------------------------------------- multi-string lists
\* Strings in one list handed to encode_multi_string, at most.
MaxStrings == 3

\* A String is the sequence of its Unicode scalar values.  The samples: "A",
\* "AB", a BMP character above U+00FF, a character outside the BMP, and two
\* strings holding U+0000.
SampleStrings ==
    { <<65>>, <<65, 66>>, <<20013>>, <<127918>>, <<65, 0, 66>>, <<0, 65>> }

StringLists == UNION { [1..n -> SampleStrings] : n \in 0..MaxStrings }

\* char::encode_utf16: one unit in the BMP, else a surrogate pair.
EncodeUtf16Char(c) ==
    IF c < 65536 THEN <<c>>
    ELSE <<55296 + ((c - 65536) \div 1024), 56320 + ((c - 65536) % 1024)>>

\* str::encode_utf16
RECURSIVE EncodeUtf16(_)
EncodeUtf16(s) ==
    IF s = <<>> THEN <<>> ELSE EncodeUtf16Char(Head(s)) \o EncodeUtf16(Tail(s))

\* The units in the other byte order.
ToBeBytes(w) == <<w \div 256, w % 256>>

\* u16::to_le_bytes
ToLeBytes(w) == <<w % 256, w \div 256>>

\* u16::from_le_bytes
FromLeBytes(lo, hi) == lo + 256 * hi

\* The loop over `strings`: each string's units, then a 0.
RECURSIVE EncodeWide(_)
EncodeWide(strings) ==
    IF strings = <<>> THEN <<>>
    ELSE EncodeUtf16(Head(strings)) \o <<0>> \o EncodeWide(Tail(strings))

\* flat_map(to_le_bytes)
RECURSIVE WideToBytes(_)
WideToBytes(wide) ==
    IF wide = <<>> THEN <<>> ELSE ToLeBytes(Head(wide)) \o WideToBytes(Tail(wide))

\* encode_multi_string
EncodeMultiString(strings) == WideToBytes(EncodeWide(strings) \o <<0>>)

\* chunks_exact(2) mapped through from_le_bytes: an odd last byte is left out.
BytesToWide(bytes) ==
    [k \in 1..(Len(bytes) \div 2) |-> FromLeBytes(bytes[2 * k - 1], bytes[2 * k])]

IsHighSurrogate(u) == u >= 55296 /\ u <= 56319
IsLowSurrogate(u) == u >= 56320 /\ u <= 57343

\* String::from_utf16_lossy: a surrogate pair is one character, a surrogate
\* on its own becomes U+FFFD.
RECURSIVE FromUtf16Lossy(_)
FromUtf16Lossy(units) ==
    IF units = <<>> THEN <<>>
    ELSE IF /\ IsHighSurrogate(units[1])
            /\ Len(units) >= 2
            /\ IsLowSurrogate(units[2])
         THEN <<65536 + (units[1] - 55296) * 1024 + (units[2] - 56320)>>
              \o FromUtf16Lossy(Tail(Tail(units)))
         ELSE IF IsHighSurrogate(units[1]) \/ IsLowSurrogate(units[1])
              THEN <<65533>> \o FromUtf16Lossy(Tail(units))
              ELSE <<units[1]>> \o FromUtf16Lossy(Tail(units))

\* The loop over `wide` in decode_multi_string: a 0 closes the current
\* string, a 0 with nothing collected ends the list, and units collected
\* when the buffer ends are dropped.
RECURSIVE DecodeWide(_, _, _)
DecodeWide(wide, current, strings) ==
    IF wide = <<>> THEN strings
    ELSE IF Head(wide) = 0
         THEN IF current = <<>> THEN strings
              ELSE DecodeWide(Tail(wide), <<>>, Append(strings, FromUtf16Lossy(current)))
         ELSE DecodeWide(Tail(wide), Append(current, Head(wide)), strings)

\* decode_multi_string
DecodeMultiString(bytes) ==
    IF Len(bytes) < 2 THEN <<>> ELSE DecodeWide(BytesToWide(bytes), <<>>, <<>>)

\* ioctl_set_list encodes the list it is given.
MultiStringEncode ==
    /\ ms_pc = "idle"
    /\ \E strings \in StringLists :
         /\ ms_list' = strings
         /\ ms_bytes' = EncodeMultiString(strings)
    /\ ms_pc' = "encoded"
    /\ UNCHANGED ms_decoded

\* ioctl_get_list decodes the buffer the driver hands back.
MultiStringDecode ==
    /\ ms_pc = "encoded"
    /\ ms_decoded' = DecodeMultiString(ms_bytes)
    /\ ms_pc' = "decoded"
    /\ UNCHANGED <<ms_list, ms_bytes>>

MultiStringNext ==
    /\ MultiStringEncode \/ MultiStringDecode
    /\ UNCHANGED <<inner_vars, loop_vars, elevated, worker_vars, holder, last,
                   game_rules, processes, watcher_vars, rpc, plog, boot_vars,
                   det_vars, start_obs, hh_vars, bl_vars, late_vars>>

MultiStringSpec == Init /\ [][MultiStringNext]_vars

\* -------------------------------------------------------- toggle_device
\* Ids a caller may pass to toggle_device: the controllers and one id more.
ToggledIds == 1..(NumDevices + 1)

\* The platform call toggle_device makes for the mode read under the lock.
TogglePlatformOp(mode, hidden) ==
    IF mode = "Minimal"
    THEN IF hidden THEN "disable" ELSE "enable"
    ELSE IF hidden THEN "hide" ELSE "unhide"

\* Faulty variant of HiddenAfterToggle: the flag is written whatever the
\* platform call returned.
HiddenAfterToggleUnchecked(flags, id, hidden, found, ok) ==
    IF ~found THEN flags
    ELSE IF hidden THEN flags \cup {id} ELSE flags \ {id}

\* The hidden flags of the table after toggle_device: the `?` on the
\* platform call returns before the re-lock, so the flag is written only
\* after an Ok.
HiddenAfterToggle(flags, id, hidden, found, ok) ==
    IF ~found \/ ~ok THEN flags
    ELSE IF hidden THEN flags \cup {id} ELSE flags \ {id}

\* commands::toggle_device
ToggleDeviceCommand ==
    /\ MainThreadFree
    /\ \E id \in ToggledIds, hidden \in BOOLEAN, ok \in BOOLEAN :
         LET i == IndexOfId(devices, id)
             mode == ActiveRoutingMode(profiles, active_profile_id)
         IN /\ dev_hidden' = HiddenAfterToggle(dev_hidden, id, hidden, i # 0, ok)
            /\ tog' = Toggled(id, hidden,
                              IF i = 0 THEN None
                              ELSE Some(Call(TogglePlatformOp(mode, hidden),
                                             devices[i].instance_path,
                                             IF ok THEN "ok" ELSE "err")),
                              IF i = 0 THEN "DeviceNotFound"
                              ELSE IF ok THEN "ok" ELSE "Platform",
                              ~tog.turn)
    /\ UNCHANGED <<inner_vars, loop_vars, elevated, worker_vars, holder, last,
                   game_rules, processes, watcher_vars, rpc, plog, boot_vars,
                   det_vars, start_obs, drv_vars>>

\* commands::get_connected_devices: the table is replaced by the enumerated
\* one, whose entries are all built with hidden: false.
GetConnectedDevicesFresh ==
    /\ MainThreadFree
    /\ \E k \in 0..NumDevices : devices' = EnumerateDevices(k)
    /\ dev_hidden' = {}
    /\ last' = Returned("get_connected_devices", TRUE, <<>>, FALSE, FALSE, FALSE)
    /\ UNCHANGED <<assignments, forwarding_active, profiles, active_profile_id,
                   loop_vars, elevated, worker_vars, holder,
                   game_rules, processes, watcher_vars, rpc, plog, boot_vars,
                   det_vars, start_obs, drv_vars, tog>>

ToggleNext == ToggleDeviceCommand \/ GetConnectedDevicesFresh \/ ActivateProfile

ToggleSpec == Init /\ [][ToggleNext]_vars

\* ------------------------------------------------- every entry point
\* Starts, stops and profile activations from the UI and the tray, the
\* watcher's activation entry point called at any moment, resets from the UI
\* and the tray, and the worker.
SessionNext == Next \/ Reset

SessionSpec == Init /\ [][SessionNext]_vars

\* ------------------------------------------------------ locks and joins
\* The threads under a scheduler that lets every thread run: the commands of
\* the UI thread, the watcher thread and the worker, from a session with the
\* watcher running.
LockInit == AutoSwitchInit /\ elevated

\* The game of rule R1 starts or ends.
GameChange == ProcessChange /\ processes' \subseteq {NameG1Lower}

LockNext ==
    \/ AutoSwitchCommand \/ Reset
    \/ StartProcessWatcher \/ StopProcessWatcher \/ StopProcessWatcherJoined
    \/ Worker
    \/ AutoSwitchWatcher \/ WatcherClear
    \/ GameChange

\* A command that has started is carried on: the joins return once the
\* joined thread has ended, and reset_all goes from step to step.
CommandContinues ==
    \/ StopForwardingJoined \/ ActivateProfileInternalRestart
    \/ StopProcessWatcherJoined
    \/ ResetAllStopForwarding \/ ResetAllWorkerJoined \/ ResetAllFinish

\* The worker takes no lock, so a step it can take stays possible until it
\* takes it; the watcher thread and a command in progress wait for the inner
\* mutex, which is handed to a waiter that asks again and again.
LockFairness ==
    /\ WF_vars(Worker)
    /\ SF_vars(WatcherThread)
    /\ SF_vars(CommandContinues)

LockSpec == LockInit /\ [][LockNext]_vars /\ LockFairness

\* ---------------------------------------------------------------- claims
\* The calls of a log without their results.
Ops(log) == [i \in 1..Len(log) |-> <<log[i].op, log[i].arg>>]

OnPaths(op, srt) == [i \in 1..Len(srt) |-> <<op, srt[i].instance_path>>]

IsPrefix(s, t) == Len(s) <= Len(t) /\ SubSeq(t, 1, Len(s)) = s

IsAscending(srt) ==
    \A i \in 1..Len(srt), j \in 1..Len(srt) :
        i < j => srt[i].target_slot <= srt[j].target_slot

Count(s, x) == Cardinality({i \in 1..Len(s) : s[i] = x})

IsPermutation(s, t) ==
    /\ Len(s) = Len(t)
    /\ \A i \in 1..Len(s) : Count(s, s[i]) = Count(t, s[i])

HasErrorStatus(events) ==
    \E i \in 1..Len(events) : events[i] = ForwardingStatus(FALSE, TRUE)

\* Resources the worker holds, read off its call log.
HiddenPaths(log) ==
    {log[i].arg : i \in {k \in 1..Len(log) :
        /\ log[k].op = "hide"
        /\ ~\E j \in (k + 1)..Len(log) : log[j].op = "unhide" /\ log[j].arg = log[k].arg}}

HidingActive(log) ==
    \E i \in 1..Len(log) :
        /\ log[i].op = "set_active" /\ log[i].arg = 1 /\ log[i].res = "ok"
        /\ ~\E j \in (i + 1)..Len(log) : log[j].op = "set_active" /\ log[j].arg = 0

PluggedTargets(log) ==
    Cardinality({i \in 1..Len(log) : log[i].op = "plug" /\ log[i].res = "ok"})
    - Cardinality({i \in 1..Len(log) : log[i].op = "unplug"})

BusConnected(log) ==
    /\ \E i \in 1..Len(log) : log[i].op = "connect" /\ log[i].res = "ok"
    /\ ~\E i \in 1..Len(log) : log[i].op = "disconnect"

ResourcesReleased ==
    /\ HiddenPaths(wlog) = {}
    /\ ~HidingActive(wlog)
    /\ PluggedTargets(wlog) = 0
    /\ ~BusConnected(wlog)

\* C1: after start_forwarding returns success the flag is set and a worker
\* thread handle exists; after stop_forwarding returns the flag is clear, the
\* worker has been joined and no handle remains; the same after a restart.
C1_StartStopContract ==
    /\ (last.op = "start_forwarding" /\ last.ok)
          => (forwarding_active /\ thread_handle /\ wpc # "none")
    /\ last.op = "stop_forwarding"
          => (~forwarding_active /\ ~thread_handle /\ wpc = "none")
    /\ (last.op = "activate_profile_internal" /\ last.joined)
          => IF last.spawned
             THEN forwarding_active /\ thread_handle /\ wpc # "none"
             ELSE ~forwarding_active /\ ~thread_handle /\ wpc = "none"

\* A stop that joined a running worker has returned.
C1_Witness ==
    /\ last.op = "stop_forwarding" /\ last.joined
    /\ ~forwarding_active /\ ~thread_handle

\* C2: whenever a start does not succeed (before the spawn, or in the worker
\* during acquisition) the flag is false afterwards and every resource the
\* attempt acquired has been released.
C2_FailedStartReleasesAll ==
    /\ (last.op = "start_forwarding" /\ ~last.ok)
          => (~forwarding_active /\ ~thread_handle /\ wpc = "none" /\ ResourcesReleased)
    /\ (wpc = "done" /\ wexit \in AcquisitionFailure)
          => (~forwarding_active /\ ResourcesReleased)

\* C3: in Force mode the state never shows forwarding_active = true while the
\* worker has exited because of an acquisition failure.
C3_FlagFalseAfterAcquisitionFailure ==
    ~(forwarding_active /\ wmode = "Force" /\ wpc = "done" /\ wexit \in AcquisitionFailure)

\* C4: in Force mode with the bus connect failing the worker's calls are, in
\* this order: whitelist_self, hide(path) in ascending target_slot order,
\* set_active(true), connect (fails), set_active(false), unhide(path) in the
\* same order; no virtual target is plugged.
ConnectFailureCalls(srt) ==
    << <<"whitelist_self", 0>> >> \o OnPaths("hide", srt)
    \o << <<"set_active", 1>>, <<"connect", 0>>, <<"set_active", 0>> >>
    \o OnPaths("unhide", srt)

C4_ConnectFailureOrder ==
    (wmode = "Force" /\ wexit = "connect") =>
        /\ IsAscending(sorted) /\ IsPermutation(sorted, wassign)
        /\ IsPrefix(Ops(wlog), ConnectFailureCalls(sorted))
        /\ wpc = "done" => Ops(wlog) = ConnectFailureCalls(sorted)
        /\ \A i \in 1..Len(wlog) : wlog[i].op # "plug"

\* The bus connect failed for a worker with every device assigned, and the
\* worker has ended.
C4_Witness ==
    /\ wmode = "Force" /\ wexit = "connect" /\ wpc = "done"
    /\ Len(sorted) = NumDevices
    /\ sorted # wassign

\* C5: every failure of a forwarding start, before the spawn or in the worker,
\* results in a forwarding-status event with active = false and an error.
C5_FailureEmitsStatus ==
    /\ (last.op = "start_forwarding" /\ ~last.ok) => HasErrorStatus(last.events)
    /\ (wpc = "done" /\ wexit \in AcquisitionFailure)
          => HasErrorStatus(WorkerEvents) \/ HasErrorStatus(last.events)

\* C6: when an activation succeeds while forwarding is active, whatever the
\* entry point, the old worker is stopped and joined and a new worker is
\* started with the activated profile's resolved assignments and routing mode.
C6_ActivationRestarts ==
    (/\ last.op \in {"activate_profile", "activate_profile_from_tray",
                     "activate_profile_internal"}
     /\ last.ok /\ last.was_active)
    => /\ last.joined /\ last.spawned
       /\ wmode = ActiveRoutingMode(profiles, active_profile_id)
       /\ wassign = ResolveAssignments(
                        ActiveProfile(profiles, active_profile_id)[1].assignments,
                        devices)

\* C7: the Minimal worker disables every resolved path in ascending
\* target_slot order, then enables the paths one at a time in that order
\* (all of them unless stop arrives inside the loop), and after stop enables
\* every path once more in that order; no enable precedes the last disable.
MinimalCalls(srt, k) ==
    OnPaths("disable", srt) \o SubSeq(OnPaths("enable", srt), 1, k)
    \o OnPaths("enable", srt)

C7_MinimalOrder ==
    (wmode = "Minimal" /\ wpc # "none") =>
        /\ IsAscending(sorted) /\ IsPermutation(sorted, wassign)
        /\ \E k \in 0..Len(sorted) : IsPrefix(Ops(wlog), MinimalCalls(sorted, k))
        /\ (wpc = "m_hold" /\ wexit # "break")
              => Ops(wlog) = OnPaths("disable", sorted) \o OnPaths("enable", sorted)
        /\ (wpc = "done" /\ wexit = "stop")
              => Ops(wlog) = MinimalCalls(sorted, Len(sorted))
        /\ (wpc = "done" /\ wexit = "break")
              => \E k \in 0..(Len(sorted) - 1) : Ops(wlog) = MinimalCalls(sorted, k)

\* Scenario {A -> slot 1, B -> slot 0}: the worker stopped from the hold state
\* has called disable(PB), disable(PA), enable(PB), enable(PA) and, on stop,
\* enable(PB), enable(PA).
C7_Witness ==
    /\ wmode = "Minimal" /\ wpc = "done" /\ wexit = "stop"
    /\ Len(sorted) = NumDevices
    /\ wassign[1].instance_path = InstancePath(1) /\ wassign[1].target_slot = NumDevices - 1
    /\ SubSeq(Ops(wlog), 1, 2) = << <<"disable", InstancePath(NumDevices)>>,
                                    <<"disable", InstancePath(NumDevices - 1)>> >>
    /\ Ops(wlog)[Len(wlog)] = <<"enable", InstancePath(1)>>

\* C8: when the Minimal worker terminates, every path it called disable on
\* has had an enable call made after that disable, whenever stop arrived.
C8_DisabledPathsReenabled ==
    (wmode = "Minimal" /\ wpc = "done") =>
        \A i \in 1..Len(wlog) :
            wlog[i].op = "disable" =>
                \E j \in (i + 1)..Len(wlog) :
                    wlog[j].op = "enable" /\ wlog[j].arg = wlog[i].arg

\* The worker was stopped inside the enable loop, before it had re-enabled
\* every path, and has ended.
C8_Witness ==
    /\ wmode = "Minimal" /\ wpc = "done" /\ wexit = "break"
    /\ Len(sorted) = NumDevices
    /\ Len(wlog) < 3 * NumDevices

\* C9: on every exit path of the Force worker all plugged targets are dropped
\* before the hiding driver is deactivated, and the driver is deactivated
\* before any path is unhidden.
C9_CleanupReverseOrder ==
    (wmode = "Force" /\ wpc = "done") =>
        \A i \in 1..Len(wlog), j \in 1..Len(wlog) :
            /\ (wlog[i].op = "unplug" /\ wlog[j].op = "set_active" /\ wlog[j].arg = 0)
                  => i < j
            /\ (wlog[i].op = "set_active" /\ wlog[i].arg = 0 /\ wlog[j].op = "unhide")
                  => i < j

\* C10: whenever the Force worker terminates, unhide has been called for every
\* path it called hide on, and the global hiding flag has been set inactive if
\* the worker set it active.
C10_ForceExitUnhides ==
    (wmode = "Force" /\ wpc = "done") =>
        /\ HiddenPaths(wlog) = {}
        /\ ~HidingActive(wlog)

\* C11: in Force mode a failed activation of the hiding driver (the control
\* device does not open, or set_active(true) returns an error) ends the start:
\* no bus connect and no plug follows it in the worker's calls.
C11_ActivationFailureEndsStart ==
    wmode = "Force" =>
        \A i \in 1..Len(wlog) :
            (wlog[i].op = "set_active" /\ wlog[i].arg = 1 /\ wlog[i].res # "ok")
                => \A j \in (i + 1)..Len(wlog) : wlog[j].op \notin {"connect", "plug"}

\* C18: the inner lock is never held by a thread that is stopping and joining
\* the worker (holder names the command that is inside handle.join() with the
\* lock taken).
C18_LockReleasedBeforeJoin == holder = "none"

\* ------------------------------------------------------- watcher claims
\* The step that ends a watcher tick.
TickEnds == tpc = "record" /\ tpc' = "top"

\* The assignments stored with a profile id.
StoredAssignments(pid) == InitProfiles[IndexOfId(InitProfiles, pid)].assignments

C13_ExitRestoresPreGame ==
    [][(TickEnds /\ t_kind = "exit") =>
          /\ call.after_id = pre_game_profile_id
          /\ active_rule_id' = None
          /\ pre_game_profile_id' = None]_vars

\* C14 as stated: a tick with active rule R and a matched rule R' of another
\* id ends with the active profile id equal to R'.profile_id, active_rule_id
\* equal to R'.id and pre_game unchanged; a tick that matches the active
\* rule changes nothing.
C14_SwitchActivatesRule ==
    [][/\ (TickEnds /\ t_kind = "switch") =>
             /\ call.after_id = Some(t_rule[1].profile_id)
             /\ active_rule_id' = Some(t_rule[1].id)
             /\ pre_game_profile_id' = pre_game_profile_id
       /\ (TickEnds /\ t_kind = "same" /\ active_rule_id # None) =>
             /\ call = NoActivation
             /\ UNCHANGED <<active_rule_id, pre_game_profile_id, app_vars>>]_vars

\* C14 amended: when R'.profile_id names a stored profile at the activation
\* the tick ends as stated; when it names none, the active profile,
\* active_rule_id and pre_game stay as they were.  A tick that matches the
\* active rule changes nothing.
C14_SwitchWhenProfileStored ==
    [][/\ (TickEnds /\ t_kind = "switch") =>
             /\ pre_game_profile_id' = pre_game_profile_id
             /\ IF call.found
                THEN /\ call.after_id = Some(t_rule[1].profile_id)
                     /\ active_rule_id' = Some(t_rule[1].id)
                ELSE /\ call.after_id = call.before
                     /\ active_rule_id' = active_rule_id
       /\ (TickEnds /\ t_kind = "same" /\ active_rule_id # None) =>
             /\ call = NoActivation
             /\ UNCHANGED <<active_rule_id, pre_game_profile_id, app_vars>>]_vars

\* A switch tick is ending: with a rule active another rule was matched and
\* its profile found and activated.
C14_Witness ==
    /\ tpc = "record" /\ t_kind = "switch" /\ t_ok
    /\ holder = "none"
    /\ active_rule_id # None /\ active_rule_id[1] # t_rule[1].id
    /\ active_profile_id = Some(t_rule[1].profile_id)

\* Equality of names ignoring ASCII case, by upper-casing.
SameNameIgnoringCase(a, b) ==
    /\ Len(a) = Len(b)
    /\ \A i \in 1..Len(a) :
          (IF a[i] >= 97 /\ a[i] <= 122 THEN a[i] - 32 ELSE a[i])
          = (IF b[i] >= 97 /\ b[i] <= 122 THEN b[i] - 32 ELSE b[i])

RuleMatches(r, procs) ==
    r.enabled /\ \E p \in procs : SameNameIgnoringCase(p, r.exe_name)

\* C16: the rule a tick matches is the first rule, in configuration order,
\* that is enabled and whose exe_name equals a running process name ignoring
\* ASCII case; a disabled rule is never matched; with no such rule the result
\* is no match.
C16_FirstEnabledMatch ==
    [][(tpc = "match" /\ tpc' # "match") =>
          IF \E i \in 1..Len(t_rules) : RuleMatches(t_rules[i], processes)
          THEN \E i \in 1..Len(t_rules) :
                  /\ t_rule' = Some(t_rules[i])
                  /\ RuleMatches(t_rules[i], processes)
                  /\ \A j \in 1..(i - 1) : ~RuleMatches(t_rules[j], processes)
          ELSE t_rule' = None]_vars

\* The tick matched the second rule: the first one, for the same executable,
\* is disabled, and the process name differs from exe_name in case.
C16_Witness ==
    /\ tpc = "activate"
    /\ Len(t_rules) = 2 /\ ~t_rules[1].enabled
    /\ t_rules[1].exe_name = t_rules[2].exe_name
    /\ t_rule = Some(t_rules[2])
    /\ t_rule[1].exe_name \notin processes

\* C15: with the enabled rule R1 {G1 -> P1} and P2 active, whenever the
\* watcher is between ticks either no rule is active, P2 is the active
\* profile and nothing is recorded (before the launch and after the exit), or
\* R1 is active, P1 is the active profile and P2 is recorded as pre_game
\* (while the game runs); a launch tick activates P1 and an exit tick P2.
C15_AutoSwitchRoundTrip ==
    /\ tpc = "top" =>
          IF active_rule_id = None
          THEN active_profile_id = Some("P2") /\ pre_game_profile_id = None
          ELSE /\ active_rule_id = Some("R1")
               /\ active_profile_id = Some("P1")
               /\ assignments = StoredAssignments("P1")
               /\ pre_game_profile_id = Some("P2")
    /\ (tpc = "record" /\ t_kind = "launch") =>
          call = Activated(Some("P1"), TRUE, Some("P2"), Some("P1"), StoredAssignments("P1"))
    /\ (tpc = "record" /\ t_kind = "exit") =>
          call = Activated(Some("P2"), TRUE, Some("P1"), Some("P2"), StoredAssignments("P2"))
    /\ t_kind \in {"none", "same", "launch", "exit"}
    /\ tpc # "clear"

\* The round trip is over: the game is gone from the process table, the
\* watcher's last activation was the one of P2, no rule is active and P2 is
\* the active profile again.
C15_Witness ==
    /\ tpc = "top" /\ processes = {}
    /\ last.op = "activate_profile_internal"
    /\ last.events[Len(last.events)] = ProfileActivated("P2")
    /\ active_rule_id = None /\ pre_game_profile_id = None
    /\ active_profile_id = Some("P2") /\ assignments = StoredAssignments("P2")

\* The calls a reset owes the platform: enable then unhide for every device
\* of the table, in table order, then the global deactivation.
RECURSIVE OwedPerDevice(_)
OwedPerDevice(devs) ==
    IF devs = <<>> THEN <<>>
    ELSE << <<"enable", Head(devs).instance_path>>,
            <<"unhide", Head(devs).instance_path>> >> \o OwedPerDevice(Tail(devs))

OwedByReset(devs) == OwedPerDevice(devs) \o << <<"deactivate_hiding", 0>> >>

ResetReturns == rpc.at = "devices" /\ rpc'.at = "none"

\* C17: when reset_all (or the tray's reset) returns, active_profile_id is
\* None, the assignments are empty, forwarding_active is false, the watcher
\* is stopped and its thread gone, enable and unhide were attempted for every
\* device path of the table whatever the earlier calls returned, followed by
\* the global deactivation, and the reset reports success and emits
\* forwarding-status {active: false} and profile-activated null.
C17_ResetAllClearsEverything ==
    [][ResetReturns =>
        /\ active_profile_id' = None
        /\ assignments' = <<>>
        /\ ~forwarding_active'
        /\ ~thread_handle' /\ wpc' = "none"
        /\ ~watcher_running' /\ ~watcher_handle' /\ tpc' = "none"
        /\ Ops(plog') = OwedByReset(devices)
        /\ last'.op = rpc.op /\ last'.ok
        /\ last'.events = <<ForwardingStatus(FALSE, FALSE), ProfileActivated(None)>>
    ]_vars

\* reset_all has returned after joining the worker of an active forwarding
\* session, with every platform call of a two-device table failing.
C17_Witness ==
    /\ last.op = "reset_all" /\ last.ok /\ last.was_active /\ last.joined
    /\ Len(devices) = NumDevices
    /\ Len(plog) = 2 * NumDevices + 1
    /\ \A k \in 1..Len(plog) : plog[k].res = "err"
    /\ active_profile_id = None /\ assignments = <<>> /\ ~forwarding_active

\* C19: after any sequence of apply_assignments, save_profile and
\* activate_profile calls, the enabled assignments held in the App State have
\* pairwise distinct target slots, and so has the resolved list a started
\* worker was handed.
C19_EnabledSlotsDistinct ==
    /\ \A i, j \in 1..Len(assignments) :
         (i < j /\ assignments[i].enabled /\ assignments[j].enabled)
            => assignments[i].slot # assignments[j].slot
    /\ \A i, j \in 1..Len(wassign) :
         i < j => wassign[i].target_slot # wassign[j].target_slot

\* C20: in every state of the device table reached by enumerations and slot
\* confirmations, no two devices are bound to the same xinput_slot.
C20_XInputSlotsDistinct ==
    \A i, j \in 1..Len(devices) :
        (i < j /\ devices[i].xinput_slot # None)
           => devices[i].xinput_slot # devices[j].xinput_slot

\* The startup found a lockfile.
SetupDirty(log) == Len(log) >= 1 /\ log[1] = Call("exists", 0, "present")

\* What a startup that found a lockfile owes, in order, once the enumeration
\* has answered: the calls on every enumerated path, the global
\* deactivation, the save and the new lockfile.
OwedByRecovery(log) ==
    << <<"exists", 0>>, <<"remove_file", 0>>, <<"enumerate_devices", log[3].arg>> >>
    \o OwedByReset(EnumerateDevices(log[3].arg))
    \o << <<"save", 0>>, <<"write", Pid>> >>

\* C21: a startup that finds a lockfile deletes it, enumerates, calls enable
\* then unhide on every enumerated path, deactivates hiding, clears
\* active_profile_id before the save, saves, and then writes the lockfile
\* with the current pid, whatever the calls return; a startup that finds
\* none makes only the lockfile write and leaves active_profile_id as it was.
C21_StartupRecovery ==
    [][/\ (spc = "clear") => active_profile_id' = None
       /\ (spc = "lock" /\ SetupDirty(slog))
             => /\ Ops(slog') = OwedByRecovery(slog')
                /\ active_profile_id' = None
                /\ slog'[Len(slog')].res = "ok" => lockfile' = Some(Pid)
       /\ (spc # "done" /\ ~SetupDirty(slog'))
             => /\ active_profile_id' = active_profile_id
                /\ spc' \in {"watcher", "done"}
                     => /\ Ops(slog') = << <<"exists", 0>>, <<"write", Pid>> >>
                        /\ slog'[2].res = "ok" => lockfile' = Some(Pid)
    ]_vars

\* A startup that found a stale lockfile and two devices has finished with
\* every platform call failing; the new lockfile holds this process's pid.
C21_Witness ==
    /\ spc = "done" /\ SetupDirty(slog)
    /\ slog[3] = Call("enumerate_devices", NumDevices, "ok")
    /\ \A k \in 4..(Len(slog) - 2) : slog[k].res = "err"
    /\ active_profile_id = None
    /\ lockfile = Some(Pid)

\* Bit k of a button word.
BitOf(word, k) == (word \div (2 ^ k)) % 2

\* The k-th poll read shows, for its slot, a bit set that was clear in the
\* slot's baseline (all bits clear when the slot did not answer then).
PollShowsNewBit(k) ==
    LET slot == (k - 1) % 4
    IN /\ polled[k] # None
       /\ \E bit \in 0..15 :
            /\ BitOf(polled[k][1], bit) = 1
            /\ base_read[slot] # None => BitOf(base_read[slot][1], bit) = 0

\* C22: detect_xinput_slot returns Some(s) only for the slot s of the first
\* poll read, in pass order and slot order, that shows a bit set which was
\* clear in that slot's baseline, and None exactly when no read before the
\* deadline shows one.
C22_DetectFirstNewPress ==
    det_pc = "returned" =>
        /\ detected # None =>
              /\ Len(polled) >= 1
              /\ detected = Some((Len(polled) - 1) % 4)
              /\ PollShowsNewBit(Len(polled))
              /\ \A k \in 1..(Len(polled) - 1) : ~PollShowsNewBit(k)
        /\ detected = None <=> \A k \in 1..Len(polled) : ~PollShowsNewBit(k)

\* Slot 1 is returned in the second pass for a second button pressed on top
\* of the one held at the baseline, after slot 0 released a button.
C22_Witness ==
    /\ det_pc = "returned" /\ detected = Some(1)
    /\ Len(polled) = 6
    /\ base_read[0] = Some(3) /\ polled[5] = Some(1)
    /\ base_read[1] = Some(1) /\ polled[6] = Some(3)

\* A start_forwarding call returns in this step.
StartReturns ==
    /\ last'.op = "start_forwarding"
    /\ <<last, start_obs>>' # <<last, start_obs>>

\* The routing mode of the active profile, Minimal when there is none.
ModeInUse ==
    IF \E i \in 1..Len(profiles) : Some(profiles[i].id) = active_profile_id
    THEN profiles[CHOOSE i \in 1..Len(profiles) :
                     Some(profiles[i].id) = active_profile_id].routing_mode
    ELSE "Minimal"

\* The start refused: an error is returned, no worker is spawned and the
\* worker's state (its calls on devices included) is as before.
StartRefused == ~last'.ok /\ ~last'.spawned /\ UNCHANGED worker_vars

PreflightContract ==
    /\ (ModeInUse = "Minimal" /\ ~elevated)
          => (StartRefused /\ start_obs'.outcome = "Platform")
    /\ (ModeInUse = "Force"
          /\ (~start_obs'.hidhide_installed \/ ~start_obs'.vigembus_installed))
          => (StartRefused /\ start_obs'.outcome = "DriverNotInstalled")
    /\ last'.spawned => wmode' = ModeInUse

\* C23 as stated: every start_forwarding call in Minimal mode without
\* elevation returns an error without spawning a worker, and every call in
\* Force mode with either driver reported not installed returns
\* DriverNotInstalled without spawning one; the mode is the active profile's,
\* Minimal when there is none.
C23_PreflightRefuses == [][StartReturns => PreflightContract]_vars

\* C23 amended: the same for every start_forwarding call made while
\* forwarding_active is false.
C23_PreflightRefusesWhenInactive ==
    [][(StartReturns /\ ~forwarding_active) => PreflightContract]_vars

\* A Force start was refused with the hiding driver installed and the
\* virtual-bus driver missing.
C23_Witness ==
    /\ last.op = "start_forwarding" /\ ~last.ok /\ ~last.was_active
    /\ start_obs = StartObserved(TRUE, FALSE, "DriverNotInstalled")
    /\ active_profile_id = Some("P2")
    /\ ResolveAssignments(assignments, devices) # <<>>
    /\ ~forwarding_active /\ wpc = "none"

\* The entries of the assignment list that are enabled and name a device of
\* the table, in list order.
ForwardableEntries ==
    SelectSeq(assignments,
              LAMBDA a : a.enabled /\ \E d \in 1..Len(devices) : devices[d].id = a.device_id)

\* One resolved entry per forwardable assignment, in order, with the path
\* and slot of the device it names.
ExpectedResolved ==
    [k \in 1..Len(ForwardableEntries) |->
        LET a == ForwardableEntries[k]
            d == CHOOSE d \in 1..Len(devices) : devices[d].id = a.device_id
        IN [instance_path |-> devices[d].instance_path,
            xinput_slot |-> devices[d].xinput_slot,
            target_slot |-> a.slot]]

ResolveContract ==
    /\ last'.spawned => wassign' = ExpectedResolved
    /\ ExpectedResolved = <<>>
          => /\ StartRefused
             /\ start_obs'.outcome = "Forwarding"
             /\ ~forwarding_active'

\* C24 as stated: the resolved list handed to the worker has one entry per
\* enabled assignment whose device is in the table, in assignment order, and
\* whenever that list is empty start_forwarding returns a Forwarding error,
\* spawns no worker and leaves forwarding_active false.
C24_ResolvedOrRefused == [][StartReturns => ResolveContract]_vars

\* C24 amended: the same for every start_forwarding call made while
\* forwarding_active is false and whose preflight check passes.
C24_ResolvedOrRefusedPastPreflight ==
    [][(/\ StartReturns
        /\ ~forwarding_active
        /\ ModeInUse = "Minimal" => elevated
        /\ ModeInUse = "Force"
              => (start_obs'.hidhide_installed /\ start_obs'.vigembus_installed))
       => ResolveContract]_vars

\* A worker was spawned with one resolved entry out of three assignments: one
\* disabled, one naming a device that is not connected.
C24_Witness ==
    /\ last.op = "start_forwarding" /\ last.spawned
    /\ Len(assignments) = 3 /\ Len(devices) = 1
    /\ Len(wassign) = 1 /\ wassign[1].target_slot = 1

\* C30: start_forwarding called while forwarding_active is true returns
\* success without running the preflight check, resolving or spawning, and
\* leaves the App State, the loop and the worker, with the assignments it was
\* started with, as they were.
C30_StartWhileActiveIsNoop ==
    [][(StartReturns /\ forwarding_active)
         => /\ last'.ok /\ ~last'.spawned
            /\ start_obs'.outcome = "noop"
            /\ UNCHANGED <<inner_vars, loop_vars, worker_vars>>]_vars

\* A start returned success while a Force worker was running, with both
\* drivers reported missing and with assignments that resolve to a list other
\* than the worker's.
C30_Witness ==
    /\ last.op = "start_forwarding" /\ last.ok /\ last.was_active
    /\ start_obs = StartObserved(FALSE, FALSE, "noop")
    /\ forwarding_active /\ wmode = "Force" /\ wpc \notin {"none", "done"}
    /\ ResolveAssignments(assignments, devices) # wassign

\* An instance path made by from_xinput_slot.
IsSyntheticPath(path) == \E slot \in XInputSlots : path = SyntheticPath(slot)

\* C25: a fallback device is never part of the resolved assignments handed
\* to the worker, and the worker never calls hide, disable, enable or unhide
\* on a synthetic path.
C25_NoSyntheticPathForwarded ==
    /\ \A i \in 1..Len(wassign) : ~IsSyntheticPath(wassign[i].instance_path)
    /\ \A i \in 1..Len(wlog) :
         wlog[i].op \in {"hide", "disable", "enable", "unhide"}
            => ~IsSyntheticPath(wlog[i].arg)

\* C26: on Linux, where Minimal mode is unsupported, start_forwarding with a
\* Minimal-mode profile fails at preflight: it returns an error, no worker is
\* spawned and forwarding_active stays false.
C26_MinimalRefusedOnLinux ==
    /\ last.op = "start_forwarding" => (~last.ok /\ ~last.spawned)
    /\ ~forwarding_active
    /\ wpc = "none"

SetsIssued(c) ==
    Cardinality({k \in 1..Len(c.ioctls) : c.ioctls[k] = "SET_BLACKLIST"})

\* The driver's list when call i of the log had returned.
ListAfter(i) == IF i < Len(bl_log) THEN bl_log[i + 1].before ELSE blacklist

\* How many entries of the list are the path, letter case aside.
EntriesFor(list, path) ==
    Cardinality({k \in 1..Len(list) : ToUppercase(list[k]) = ToUppercase(path)})

NoNulIn(strings) ==
    \A i \in 1..Len(strings) : \A k \in 1..Len(strings[i]) : strings[i][k] # 0

\* C29: for every list L of non-empty strings, the empty list included,
\* decode_multi_string(encode_multi_string(L)) = L.
C29_RoundTrip ==
    ms_pc = "decoded" => ms_decoded = ms_list

\* C29, as it holds: for every list L of non-empty strings none of which
\* holds U+0000, decode_multi_string(encode_multi_string(L)) = L, and the
\* encoding is 2 bytes for every UTF-16 unit and terminator.
C29_RoundTripWithoutNul ==
    (ms_pc = "decoded" /\ NoNulIn(ms_list))
      => /\ ms_decoded = ms_list
         /\ Len(ms_bytes) = 2 * (Len(EncodeWide(ms_list)) + 1)

\* Three strings with a one-byte unit, a two-byte unit and a surrogate
\* pair come back as they went in.
C29_Witness ==
    /\ ms_pc = "decoded"
    /\ ms_list = << <<65, 66>>, <<127918>>, <<20013>> >>
    /\ ms_bytes = <<65, 0, 66, 0, 0, 0, 60, 216, 174, 223, 0, 0, 45, 78, 0, 0, 0, 0>>
    /\ ms_decoded = ms_list

\* ------------------------------------------------ restart and cancellation
\* C31: restart_forwarding stops and joins the current worker before it
\* starts: at the start the old worker has ended and running is clear; when
\* the start then fails the error reaches the caller (who emits it),
\* forwarding_active is false and no worker thread exists.
C31_RestartStopsThenStarts ==
    [][(holder = "activate_profile_internal" /\ holder' = "none")
         => /\ thread_handle => wpc = "done"
            /\ ~running
            /\ IF last'.spawned
               THEN /\ forwarding_active' /\ thread_handle' /\ wpc' # "none"
                    /\ last'.events = <<ProfileActivated(active_profile_id[1])>>
               ELSE /\ ~forwarding_active' /\ ~thread_handle' /\ wpc' = "none"
                    /\ ~running'
                    /\ last'.events = <<ForwardingStatus(FALSE, TRUE),
                                        ProfileActivated(active_profile_id[1])>>]_vars

\* A restart on the watcher thread joined the worker and its start failed.
C31_Witness ==
    /\ last.op = "activate_profile_internal"
    /\ last.joined /\ ~last.spawned
    /\ Len(last.events) = 2
    /\ ~forwarding_active /\ ~thread_handle /\ wpc = "none"

\* The worker calls that acquire: a disable in Minimal; a hide, the
\* set_active(true), the bus connect and a target plug in Force.
IsAcquisitionCall(c) ==
    \/ c.op \in {"disable", "hide", "connect", "plug"}
    \/ c.op = "set_active" /\ c.arg = 1

\* C32: once running has been cleared the worker makes no further
\* acquisition call.
C32_NoAcquisitionAfterCancel ==
    [][(~running /\ Len(wlog') = Len(wlog) + 1)
         => ~IsAcquisitionCall(wlog'[Len(wlog')])]_vars

\* ------------------------------------------------------------ toggle_device
\* C33: toggle_device with an unknown id returns DeviceNotFound and makes no
\* platform call; with a known id it calls disable / enable on the device's
\* path under Minimal and hide / unhide under Force, and the device's hidden
\* flag is written only when that call succeeded: a platform error leaves
\* the flags as they were.
C33_ToggleDevice ==
    [][(tog'.turn # tog.turn)
         => LET i == IndexOfId(devices, tog'.id)
                mode == ActiveRoutingMode(profiles, active_profile_id)
            IN IF i = 0
               THEN /\ tog'.res = "DeviceNotFound"
                    /\ tog'.call = None
                    /\ dev_hidden' = dev_hidden
               ELSE /\ tog'.call # None
                    /\ tog'.call[1].arg = devices[i].instance_path
                    /\ tog'.call[1].op =
                         (IF mode = "Minimal"
                          THEN IF tog'.hidden THEN "disable" ELSE "enable"
                          ELSE IF tog'.hidden THEN "hide" ELSE "unhide")
                    /\ IF tog'.call[1].res = "ok"
                       THEN /\ tog'.res = "ok"
                            /\ (tog'.id \in dev_hidden') = tog'.hidden
                            /\ dev_hidden' \ {tog'.id} = dev_hidden \ {tog'.id}
                       ELSE /\ tog'.res = "Platform"
                            /\ dev_hidden' = dev_hidden]_vars

\* Device 2 was hidden under the Force profile, and a later unhide of it
\* failed in the platform: its flag is still set.
C33_Witness ==
    /\ tog.id = 2 /\ ~tog.hidden
    /\ tog.call = Some(Call("unhide", InstancePath(2), "err"))
    /\ tog.res = "Platform"
    /\ dev_hidden = {2}

\* ------------------------------------------------------- worker lifetime
\* A worker thread has been spawned and has not returned.
WorkerAlive == wpc \notin {"none", "done"}

\* A step that spawns a worker: InputLoop::start sets running, and the
\* closure starts with an empty call log.
SpawnStep ==
    \/ ~running /\ running'
    \/ /\ wpc' \in {"m_disable", "f_whitelist"} /\ wlog' = <<>>
       /\ wpc \notin {"m_disable", "f_whitelist"}

\* C34: at most one input-loop worker is alive at any instant: a worker is
\* spawned only when none is alive (the one before it, if any, has finished
\* its cleanup and returned), and a live worker is the one the loop holds
\* the handle of, with forwarding_active set, so that the next stop joins it.
C34_OneWorkerAlive ==
    [][/\ SpawnStep => ~WorkerAlive
       /\ WorkerAlive' => (thread_handle' /\ forwarding_active')]_vars

\* The Force worker a restart on the watcher thread spawned, after the join
\* of the worker before it, is in its forwarding loop.
C34_Witness ==
    /\ WorkerAlive
    /\ wmode = "Force" /\ wpc = "f_loop"
    /\ last.op = "activate_profile_internal" /\ last.joined /\ last.spawned

\* --------------------------------------------------------- locks and joins
\* The UI thread is inside ProcessWatcher::stop (or the first step of a
\* reset), holding the watcher lock and joining the watcher thread.
JoiningWatcher == watcher_handle /\ ~watcher_running

C36_StopTerminates ==
    /\ (holder # "none" /\ WorkerAlive) ~> ~WorkerAlive
    /\ (holder = "stop_forwarding") ~> (holder = "none" /\ ~thread_handle /\ wpc = "none")
    /\ (JoiningWatcher /\ tpc # "none") ~> (tpc \in {"done", "none"})

\* stop_forwarding is in the join while the Minimal worker holds its state.
C36_Witness ==
    /\ holder = "stop_forwarding"
    /\ wmode = "Minimal" /\ wpc = "m_hold"
    /\ ~running

\* --------------------------------------------------------- racing commands
\* C37: the pre_game profile a launch tick records is the profile that was
\* active immediately before the tick's activation replaced it, also when an
\* activate_profile of the UI comes between the tick's snapshot and its
\* activation.
C37_PreGameIsReplacedProfile ==
    [][(TickEnds /\ t_kind = "launch" /\ call.found) =>
          pre_game_profile_id' = call.before]_vars

\* C38: an activate_profile that returns an error (the profile is not
\* stored, or the save of the configuration fails) leaves active_profile_id
\* and the assignments as they were before the call.
C38_FailedActivationChangesNothing ==
    [][(ActivateProfile /\ ~last'.ok) =>
          /\ active_profile_id' = active_profile_id
          /\ assignments' = assignments]_vars

\* ------------------------------------------------------ game rule commands
\* The rule list is kept to MaxRules entries.
MaxRules == 3
\* The ids Uuid::new_v4 gives the rules added during a session: the first
\* one no stored rule carries.
NewRuleIds == <<"R2", "R3", "R4", "R5">>
FreshRuleId ==
    LET free == {i \in 1..Len(NewRuleIds) : IndexOfId(game_rules, NewRuleIds[i]) = 0}
    IN NewRuleIds[CHOOSE i \in free : \A j \in free : i <= j]
\* Rule ids a caller may name.
NamedRuleIds == RuleIds \cup {NewRuleIds[i] : i \in 1..Len(NewRuleIds)}

\* The executable a caller may add a rule for.
AddedExeNames == {NameQuote1}

\* commands::add_game_rule: an unknown profile id is an error before any
\* write; else an enabled rule with a fresh id is pushed and config.save()?
\* decides the result.
AddGameRule ==
    /\ MainThreadFree
    /\ Len(game_rules) < MaxRules
    /\ \E exe_name \in AddedExeNames, pid \in RequestedIds,
          save_ok \in BOOLEAN :
         IF IndexOfId(profiles, pid) = 0
         THEN /\ game_rules' = game_rules
              /\ last' = Returned("add_game_rule", FALSE, <<>>, forwarding_active,
                                  FALSE, FALSE)
         ELSE /\ game_rules' = Append(game_rules,
                                      GameRule(FreshRuleId, exe_name, pid, TRUE))
              /\ last' = Returned("add_game_rule", save_ok, <<>>, forwarding_active,
                                  FALSE, FALSE)
    /\ UNCHANGED <<inner_vars, loop_vars, elevated, worker_vars, holder, processes,
                   watcher_vars, rpc, plog, aux_vars>>

\* commands::delete_game_rule: the rules with that id are removed;
\* config.save()? comes after the write and decides only the value returned.
DeleteGameRule ==
    /\ MainThreadFree
    /\ \E rule_id \in NamedRuleIds :
         game_rules' = SelectSeq(game_rules, LAMBDA r : r.id # rule_id)
    /\ UNCHANGED <<inner_vars, loop_vars, elevated, worker_vars, holder, last, processes,
                   watcher_vars, rpc, plog, aux_vars>>

\* save_profile called with the masked list and no routing mode.
SaveMinimalProfile ==
    /\ SaveProfile
    /\ profiles'[Len(profiles')].assignments = MaskedAssignments
    /\ profiles'[Len(profiles')].routing_mode = DefaultRoutingMode

\* The profile and rule commands in any order, from a session with any of
\* the stored profiles (or none) active; no watcher runs and forwarding is
\* not started.
RuleNext ==
    \/ SaveMinimalProfile \/ DeleteProfile
    \/ AddGameRule \/ DeleteGameRule \/ ToggleGameRule

\* The process runs elevated; elevation only matters to a forwarding start.
RuleInit == Init /\ elevated

RuleSpec == RuleInit /\ [][RuleNext]_vars

\* Every rule names a stored profile.
RulesNameProfiles(rules, stored) ==
    \A i \in 1..Len(rules) : IndexOfId(stored, rules[i].profile_id) # 0

\* C39: from a configuration whose rules all name stored profiles, every
\* sequence of save_profile, delete_profile, add_game_rule, delete_game_rule
\* and toggle_game_rule keeps it so; add_game_rule either leaves the list as
\* it is or appends one rule naming a stored profile; and delete_profile
\* leaves no active profile id naming the deleted profile.
C39_RulesNameStoredProfiles ==
    /\ [](RulesNameProfiles(game_rules, profiles))
    /\ [](active_profile_id # None => IndexOfId(profiles, active_profile_id[1]) # 0)
    /\ [][AddGameRule =>
             \/ game_rules' = game_rules
             \/ /\ game_rules' = Append(game_rules, game_rules'[Len(game_rules')])
                /\ IndexOfId(profiles, game_rules'[Len(game_rules')].profile_id) # 0]_vars

\* Profile P1 was deleted with its rule R1, and a rule added later names the
\* profile saved during the session.
C39_Witness ==
    /\ IndexOfId(profiles, "P1") = 0
    /\ IndexOfId(game_rules, "R1") = 0
    /\ \E i \in 1..Len(game_rules) :
          /\ game_rules[i].profile_id = NewProfileId
          /\ game_rules[i].id \notin RuleIds

\* ------------------------------------------------------------ orderly exit
\* lib.rs, the closure handed to run(): on RunEvent::Exit the lockfile is
\* removed, the result of remove_file dropped.  Nothing before it stops the
\* input loop.
ExitEvent ==
    /\ spc = "done"
    /\ MainThreadFree
    /\ \E res \in {"ok", "error"} :
         lockfile' = IF res = "ok" THEN None ELSE lockfile
    /\ spc' = "exited"
    /\ UNCHANGED <<inner_vars, loop_vars, elevated, worker_vars, holder, last,
                   game_rules, processes, watcher_vars, rpc, plog, slog, helper_vars>>

\* After the closure returned the managed App State is dropped:
\* InputLoop::drop calls stop, which clears running and joins the worker.
ExitDropState ==
    /\ spc = "exited"
    /\ running' = FALSE
    /\ spc' = "dropping"
    /\ UNCHANGED <<inner_vars, thread_handle, elevated, worker_vars, holder, last,
                   game_rules, processes, watcher_vars, rpc, plog, lockfile, slog,
                   helper_vars>>

\* The join inside InputLoop::drop returns once the worker has ended (at
\* once when there is no worker); the process ends.
ExitJoined ==
    /\ spc = "dropping"
    /\ ~WorkerAlive
    /\ thread_handle' = FALSE
    /\ spc' = "ended"
    /\ UNCHANGED <<inner_vars, running, elevated, worker_vars, holder, last,
                   game_rules, processes, watcher_vars, rpc, plog, lockfile, slog,
                   helper_vars>>

\* The process ends without the App State being dropped: the worker thread
\* ends with the process, wherever it is.
ExitProcess ==
    /\ spc = "exited"
    /\ spc' = "ended"
    /\ UNCHANGED <<inner_vars, loop_vars, elevated, worker_vars, holder, last,
                   game_rules, processes, watcher_vars, rpc, plog, lockfile, slog,
                   helper_vars>>

\* A session of commands and forwarding that ends with an exit event; the
\* worker runs until the process has ended.
ExitNext ==
    \/ (spc = "done" /\ Command)
    \/ (spc # "ended" /\ Worker)
    \/ ExitEvent \/ ExitDropState \/ ExitJoined \/ ExitProcess

ExitSpec == Init /\ [][ExitNext]_vars

\* Paths the worker disabled and did not enable again, read off its log.
DisabledPaths(log) ==
    {log[i].arg : i \in {k \in 1..Len(log) :
        /\ log[k].op = "disable"
        /\ ~\E j \in (k + 1)..Len(log) : log[j].op = "enable" /\ log[j].arg = log[k].arg}}

\* C40: at an orderly exit the worker has been stopped and has finished its
\* cleanup before the lockfile is removed; so a process that has ended with
\* the lockfile removed has left no path hidden or disabled and the hiding
\* driver inactive.
C40_CleanupBeforeLockfileRemoved ==
    /\ [][(spc = "done" /\ spc' = "exited") => ~WorkerAlive]_vars
    /\ []((spc = "ended" /\ lockfile = None) =>
             /\ HiddenPaths(wlog) = {}
             /\ ~HidingActive(wlog)
             /\ DisabledPaths(wlog) = {})
====
